---- MODULE Spec2Model ----
(***************************************************************************)
(* Hybrid retrieval and query-routing engine of the election RAG service.  *)
(*                                                                         *)
(* SQLiteConnectionPool (services/sqlite_pool.py), SQLiteService           *)
(* (services/sqlite_service.py), SQLGenerator and IntentExtractor          *)
(* (services/sql_generator.py), QueryRouter (services/query_router.py),     *)
(* RetrievalService (services/retrieval_service.py), FaissVectorStore      *)
(* (services/vector_store.py), RedisCacheService (services/redis_cache.py).*)
(***************************************************************************)
EXTENDS Integers, Sequences, FiniteSets, TLC

(***************************************************************************)
(* Bounds of the model.                                                    *)
(***************************************************************************)
\* number of threads that call get_connection
NumCallers == 2
\* get_connection is not entered once this many leases have been granted
MaxLeases == 2
\* last value of the clock (seconds)
MaxTime == 1
\* self.timeout, the acquisition timeout (settings.sqlite_pool_timeout), scaled
Timeout == 1
\* the default of is_expired(timeout), the idle threshold, scaled
IdleTimeout == 0

(***************************************************************************)
(* Program constants.                                                      *)
(***************************************************************************)
\* self._pool_condition.wait(timeout=1.0)
WaitTimeout == 1
\* len(self._pool) % 10 == 0
CleanupEvery == 10

\* the pool sizes the pool is constructed with (pool_size argument)
PoolSizes == {1, 10}

Callers == 1..NumCallers
NoCaller == 0
NoConn == 0

VARIABLES
    \* --- SQLiteConnectionPool ---
    pool_size,      \* self.pool_size
    conns,          \* the SQLiteConnection objects: id -> [in_use, last_used, lease_count]
    pool,           \* self._pool: the list of pooled connections (ids)
    lock,           \* owner of self._lock (NoCaller when free)
    pc,             \* position of each caller inside get_connection
    conn_wrapper,   \* the local conn_wrapper of each caller (NoConn for None)
    start_time,     \* the local start_time of each caller
    wait_start,     \* when the caller's current condition wait began
    notified,       \* the caller's wait has been notified
    raised,         \* the caller's with block raised
    now,            \* time.time()
    \* --- SQLiteService.validate_query ---
    stmt,           \* the query argument
    vresult,        \* what validate_query returned (<<>> before the call)
    explain_runs,   \* EXPLAIN QUERY PLAN statements sent to the store
    \* --- IntentExtractor / routing step of QueryRouter.route_and_execute ---
    user_query,     \* the query text
    response,       \* what the LLM answered to the extraction prompt
    intent_result,  \* what IntentExtractor.extract returned (<<>> before)
    is_structured,  \* what is_structured_query returned
    handler,        \* the handler route_and_execute dispatched to ("" before)
    \* --- QueryRouter.route_and_execute ---
    cache_enabled,  \* self.cache.enabled
    query_cache,    \* the query_result entries of the cache: key -> response
    calls,          \* route_and_execute calls made so far
    request,        \* the arguments of the call: [query, filters, top_k]
    stage,          \* where the call is: Idle, Start, Extracted, Routed,
                    \* Executed, Answered, Failed, Escaped
    extracted,      \* the local intent_result
    routed_to,      \* the handler the call was dispatched to
    handler_result, \* the local result, as the handler returned it
    returned,       \* what route_and_execute returned
    exception,      \* the exception that left route_and_execute ("" if none)
    executed,       \* the statements that reached execute_query in this call
    rejected,       \* the statements validate_query rejected in this call
    prompt,         \* the context prompt sent for the answer in this call
    rows_fetched,   \* rows of the tables fetched from the store in this call
    searched,       \* the numbers of candidates the index was asked for in this call
    samples,        \* the performance samples recorded so far
    \* --- RetrievalService._get_adaptive_ef_search ---
    ef_settings,    \* the settings the function reads
    query_history,  \* self.query_history
    ef_args,        \* the arguments of the call (<<>> before the call)
    ef_pc,          \* "ready" before the call, "returned" after it
    ef_search,      \* what the call returned
    \* --- RedisCacheService and the operations that use it ---
    rc_enabled,     \* self.enabled (self.client is None when it is False)
    backend_up,     \* the Redis server answers; its calls raise otherwise
    redis_db,       \* the keys of the Redis database: key -> [data, expire_at]
    rc_now,         \* the time of the Redis server
    set_log,        \* key -> [value, ttl, at] of the latest set that stored it
    rc_call,        \* the latest get / set / delete call and what it returned
    caller,         \* the operation that is using the cache, and its progress
    \* --- RetrievalService.retrieve ---
    cross_encoder,  \* self.cross_encoder is loaded (it is None otherwise)
    faiss_enabled,  \* self.cache.enabled
    faiss_cache,    \* the faiss_search entries of the cache: key -> documents
    rt_history,     \* self.query_history
    rt_calls,       \* retrieve calls made so far
    rt_args,        \* the arguments of the latest call (<<>> before it)
    rt_candidates,  \* what the index search of the call returned
    rt_result,      \* what the call returned
    \* --- DeepSeekLLMService.ainvoke ---
    max_retries,    \* the max_retries argument
    attempt,        \* the loop variable
    llm_pc,         \* "loop", "sleeping", "returned" or "raised"
    errors,         \* the exceptions of the attempts made so far
    waits,          \* the seconds of the sleeps begun so far
    llm_outcome,    \* what the call returned or raised ("" before)
    \* --- the event loop that serves the chat endpoint ---
    co_kind,        \* the handler each request is routed to
    co_pc,          \* where the coroutine of each request stands
    running         \* the coroutine the event loop thread is executing (0: none)

poolVars == <<pool_size, conns, pool, lock, pc, conn_wrapper, start_time,
              wait_start, notified, raised, now>>

validateVars == <<stmt, vresult, explain_runs>>

routingVars == <<user_query, response, intent_result, is_structured, handler>>

routerVars == <<cache_enabled, query_cache, calls, request, stage, extracted,
                routed_to, handler_result, returned, exception, executed, rejected,
                prompt, rows_fetched, searched, samples>>

efVars == <<ef_settings, query_history, ef_args, ef_pc, ef_search>>

cacheVars == <<rc_enabled, backend_up, redis_db, rc_now, set_log, rc_call,
               caller>>

retrievalVars == <<cross_encoder, faiss_enabled, faiss_cache, rt_history,
                   rt_calls, rt_args, rt_candidates, rt_result>>

llmVars == <<max_retries, attempt, llm_pc, errors, waits, llm_outcome>>

loopVars == <<co_kind, co_pc, running>>

vars == <<poolVars, validateVars, routingVars, routerVars, efVars, cacheVars,
          retrievalVars, llmVars, loopVars>>

\* the variables that the steps of one component leave alone
notPool ==
    <<validateVars, routingVars, routerVars, efVars, cacheVars,
      retrievalVars, llmVars, loopVars>>
notValidate ==
    <<poolVars, routingVars, routerVars, efVars, cacheVars, retrievalVars,
      llmVars, loopVars>>
notRouting ==
    <<poolVars, validateVars, routerVars, efVars, cacheVars, retrievalVars,
      llmVars, loopVars>>
notRouter ==
    <<poolVars, validateVars, routingVars, efVars, cacheVars, retrievalVars,
      llmVars, loopVars>>
notEf ==
    <<poolVars, validateVars, routingVars, routerVars, cacheVars,
      retrievalVars, llmVars, loopVars>>
notCache ==
    <<poolVars, validateVars, routingVars, routerVars, efVars, retrievalVars,
      llmVars, loopVars>>
notRetrieval ==
    <<poolVars, validateVars, routingVars, routerVars, efVars, cacheVars,
      llmVars, loopVars>>
notLlm ==
    <<poolVars, validateVars, routingVars, routerVars, efVars, cacheVars,
      retrievalVars, loopVars>>
notLoop ==
    <<poolVars, validateVars, routingVars, routerVars, efVars, cacheVars,
      retrievalVars, llmVars>>

\* the variables of the components that a specification leaves out
PoolUnused ==
    /\ pool_size = 0 /\ conns = <<>> /\ pool = <<>> /\ lock = 0
    /\ pc = <<>> /\ conn_wrapper = <<>> /\ start_time = <<>>
    /\ wait_start = <<>> /\ notified = <<>> /\ raised = <<>> /\ now = 0

ValidateUnused == stmt = <<>> /\ vresult = <<>> /\ explain_runs = 0

RoutingUnused ==
    /\ user_query = <<>> /\ response = <<>> /\ intent_result = <<>>
    /\ is_structured = FALSE /\ handler = ""

RouterUnused ==
    /\ cache_enabled = FALSE /\ query_cache = <<>> /\ calls = 0
    /\ request = <<>> /\ stage = "" /\ extracted = <<>> /\ routed_to = ""
    /\ handler_result = <<>> /\ returned = <<>> /\ exception = "" /\ executed = {}
    /\ rejected = {} /\ prompt = <<>> /\ rows_fetched = 0
    /\ searched = {} /\ samples = <<>>

EfUnused ==
    /\ ef_settings = <<>> /\ query_history = <<>> /\ ef_args = <<>>
    /\ ef_pc = "" /\ ef_search = 0

CacheUnused ==
    /\ rc_enabled = FALSE /\ backend_up = FALSE /\ redis_db = <<>>
    /\ rc_now = 0 /\ set_log = <<>> /\ rc_call = <<>> /\ caller = <<>>

RetrievalUnused ==
    /\ cross_encoder = FALSE /\ faiss_enabled = FALSE /\ faiss_cache = <<>>
    /\ rt_history = <<>> /\ rt_calls = 0 /\ rt_args = <<>>
    /\ rt_candidates = <<>> /\ rt_result = <<>>

LlmUnused ==
    /\ max_retries = 0 /\ attempt = 0 /\ llm_pc = "" /\ errors = <<>>
    /\ waits = <<>> /\ llm_outcome = ""

LoopUnused ==
    /\ co_kind = <<>> /\ co_pc = <<>> /\ running = 0

OnlyPool ==
    /\ ValidateUnused /\ RoutingUnused /\ RouterUnused /\ EfUnused
    /\ CacheUnused /\ RetrievalUnused /\ LlmUnused /\ LoopUnused
OnlyValidate ==
    /\ PoolUnused /\ RoutingUnused /\ RouterUnused /\ EfUnused /\ CacheUnused
    /\ RetrievalUnused /\ LlmUnused /\ LoopUnused
OnlyRouting ==
    /\ PoolUnused /\ ValidateUnused /\ RouterUnused /\ EfUnused /\ CacheUnused
    /\ RetrievalUnused /\ LlmUnused /\ LoopUnused
OnlyRouter ==
    /\ PoolUnused /\ ValidateUnused /\ RoutingUnused /\ EfUnused
    /\ CacheUnused /\ RetrievalUnused /\ LlmUnused /\ LoopUnused
OnlyEf ==
    /\ PoolUnused /\ ValidateUnused /\ RoutingUnused /\ RouterUnused
    /\ CacheUnused /\ RetrievalUnused /\ LlmUnused /\ LoopUnused
OnlyCache ==
    /\ PoolUnused /\ ValidateUnused /\ RoutingUnused /\ RouterUnused
    /\ EfUnused /\ RetrievalUnused /\ LlmUnused /\ LoopUnused
OnlyRetrieval ==
    /\ PoolUnused /\ ValidateUnused /\ RoutingUnused /\ RouterUnused
    /\ EfUnused /\ CacheUnused /\ LlmUnused /\ LoopUnused
OnlyLlm ==
    /\ PoolUnused /\ ValidateUnused /\ RoutingUnused /\ RouterUnused
    /\ EfUnused /\ CacheUnused /\ RetrievalUnused /\ LoopUnused
OnlyLoop ==
    /\ PoolUnused /\ ValidateUnused /\ RoutingUnused /\ RouterUnused
    /\ EfUnused /\ CacheUnused /\ RetrievalUnused /\ LlmUnused

(***************************************************************************)
(* SQLiteConnection                                                        *)
(***************************************************************************)
\* SQLiteConnection.__init__
NewConnection(t) == [in_use |-> FALSE, last_used |-> t, lease_count |-> 0]

\* an expiry test that does not look at in_use (mutation of is_expired)
is_expired_whether_in_use(c, t) == (t - c.last_used) > IdleTimeout

\* SQLiteConnection.is_expired
is_expired(c, t) == (t - c.last_used) > IdleTimeout /\ ~c.in_use

\* SQLiteConnection.lease
lease(c, t) == [c EXCEPT !.in_use = TRUE, !.last_used = t,
                         !.lease_count = c.lease_count + 1]

(***************************************************************************)
(* SQLiteConnectionPool                                                    *)
(***************************************************************************)
\* a scan that does not test in_use (mutation of FreeTest)
FreeTestIgnoresInUse(c) == TRUE

\* the for loop of get_connection: the first pooled connection tested free
FreeTest(c) == ~c.in_use

FirstFree(p, cs) ==
    IF \E i \in 1..Len(p) : FreeTest(cs[p[i]])
    THEN p[CHOOSE i \in 1..Len(p) :
               /\ FreeTest(cs[p[i]])
               /\ \A j \in 1..(i - 1) : ~FreeTest(cs[p[j]])]
    ELSE NoConn

\* the list comprehension of _cleanup_expired_connections
Sweep(p, cs, t) == SelectSeq(p, LAMBDA id : ~is_expired(cs[id], t))

\* a release that wakes nobody (mutation of NotifyAll)
NotifyNobody(n, p) == n

\* notify_all: every thread waiting on the condition is woken
NotifyAll(n, p) == [c \in Callers |-> IF p[c] = "waiting" THEN TRUE ELSE n[c]]

\* sum(conn.lease_count for conn in ...), over every connection ever created
RECURSIVE TotalLeases(_, _)
TotalLeases(cs, n) ==
    IF n = 0 THEN 0 ELSE cs[n].lease_count + TotalLeases(cs, n - 1)

PoolInit ==
    /\ pool_size \in PoolSizes
    /\ conns = [i \in 1..pool_size |-> NewConnection(0)]
    /\ pool = [i \in 1..pool_size |-> i]
    /\ lock = NoCaller
    /\ pc = [c \in Callers |-> "idle"]
    /\ conn_wrapper = [c \in Callers |-> NoConn]
    /\ start_time = [c \in Callers |-> 0]
    /\ wait_start = [c \in Callers |-> 0]
    /\ notified = [c \in Callers |-> FALSE]
    /\ raised = [c \in Callers |-> FALSE]
    /\ now = 0
    /\ OnlyPool

\* time passes
Tick ==
    /\ now < MaxTime
    /\ now' = now + 1
    /\ UNCHANGED <<pool_size, conns, pool, lock, pc, conn_wrapper, start_time,
                   wait_start, notified, raised>>
    /\ UNCHANGED notPool

\* get_connection: conn_wrapper = None; with self._pool_condition: start_time = time.time()
Enter(c) ==
    /\ pc[c] \in {"idle", "timed_out"}
    /\ TotalLeases(conns, pool_size) < MaxLeases
    /\ lock = NoCaller
    /\ lock' = c
    /\ conn_wrapper' = [conn_wrapper EXCEPT ![c] = NoConn]
    /\ start_time' = [start_time EXCEPT ![c] = now]
    /\ pc' = [pc EXCEPT ![c] = "scan"]
    /\ UNCHANGED <<pool_size, conns, pool, wait_start, notified, raised, now>>
    /\ UNCHANGED notPool

\* one pass of the while loop that finds a free connection and leases it
ScanLease(c) ==
    /\ pc[c] = "scan"
    /\ lock = c
    /\ FirstFree(pool, conns) # NoConn
    /\ LET id == FirstFree(pool, conns) IN
          /\ conns' = [conns EXCEPT ![id] = lease(conns[id], now)]
          /\ conn_wrapper' = [conn_wrapper EXCEPT ![c] = id]
    /\ lock' = NoCaller
    /\ start_time' = [start_time EXCEPT ![c] = 0]
    /\ pc' = [pc EXCEPT ![c] = "cleanup_check"]
    /\ UNCHANGED <<pool_size, pool, wait_start, notified, raised, now>>
    /\ UNCHANGED notPool

\* one pass that finds none and whose elapsed time has reached the timeout:
\* TimeoutError leaves the with block, the except clause re-raises, the
\* finally clause finds conn_wrapper None
ScanTimeout(c) ==
    /\ pc[c] = "scan"
    /\ lock = c
    /\ FirstFree(pool, conns) = NoConn
    /\ now - start_time[c] >= Timeout
    /\ lock' = NoCaller
    /\ start_time' = [start_time EXCEPT ![c] = 0]
    /\ pc' = [pc EXCEPT ![c] = "timed_out"]
    /\ UNCHANGED <<pool_size, conns, pool, conn_wrapper, wait_start, notified,
                   raised, now>>
    /\ UNCHANGED notPool

\* one pass that finds none and waits on the condition (the lock is released)
ScanWait(c) ==
    /\ pc[c] = "scan"
    /\ lock = c
    /\ FirstFree(pool, conns) = NoConn
    /\ now - start_time[c] < Timeout
    /\ lock' = NoCaller
    /\ wait_start' = [wait_start EXCEPT ![c] = now]
    /\ notified' = [notified EXCEPT ![c] = FALSE]
    /\ pc' = [pc EXCEPT ![c] = "waiting"]
    /\ UNCHANGED <<pool_size, conns, pool, conn_wrapper, start_time, raised,
                   now>>
    /\ UNCHANGED notPool

\* wait(timeout=1.0) returns, notified or timed out, with the lock re-acquired
Wake(c) ==
    /\ pc[c] = "waiting"
    /\ notified[c] \/ now - wait_start[c] >= WaitTimeout
    /\ lock = NoCaller
    /\ lock' = c
    /\ notified' = [notified EXCEPT ![c] = FALSE]
    /\ wait_start' = [wait_start EXCEPT ![c] = 0]
    /\ pc' = [pc EXCEPT ![c] = "scan"]
    /\ UNCHANGED <<pool_size, conns, pool, conn_wrapper, start_time, raised,
                   now>>
    /\ UNCHANGED notPool

\* if len(self._pool) > 0 and len(self._pool) % 10 == 0 (read without the lock)
CleanupCheck(c) ==
    /\ pc[c] = "cleanup_check"
    /\ pc' = [pc EXCEPT ![c] =
                 IF Len(pool) > 0 /\ Len(pool) % CleanupEvery = 0
                 THEN "cleanup" ELSE "body"]
    /\ UNCHANGED <<pool_size, conns, pool, lock, conn_wrapper, start_time,
                   wait_start, notified, raised, now>>
    /\ UNCHANGED notPool

\* _cleanup_expired_connections, under self._lock
Cleanup(c) ==
    /\ pc[c] = "cleanup"
    /\ lock = NoCaller
    /\ pool' = Sweep(pool, conns, now)
    /\ pc' = [pc EXCEPT ![c] = "body"]
    /\ UNCHANGED <<pool_size, conns, lock, conn_wrapper, start_time,
                   wait_start, notified, raised, now>>
    /\ UNCHANGED notPool

\* the caller's with block ends normally
BodyReturns(c) ==
    /\ pc[c] = "body"
    /\ pc' = [pc EXCEPT ![c] = "release"]
    /\ UNCHANGED <<pool_size, conns, pool, lock, conn_wrapper, start_time,
                   wait_start, notified, raised, now>>
    /\ UNCHANGED notPool

\* an exception that skips the finally clause (mutation of BodyRaises)
BodyRaisesWithoutFinally(c) ==
    /\ pc[c] = "body"
    /\ conn_wrapper' = [conn_wrapper EXCEPT ![c] = NoConn]
    /\ pc' = [pc EXCEPT ![c] = "idle"]
    /\ UNCHANGED <<pool_size, conns, pool, lock, start_time, wait_start,
                   notified, raised, now>>
    /\ UNCHANGED notPool

\* the caller's with block raises: except logs and re-raises, finally runs
BodyRaises(c) ==
    /\ pc[c] = "body"
    /\ raised' = [raised EXCEPT ![c] = TRUE]
    /\ pc' = [pc EXCEPT ![c] = "release"]
    /\ UNCHANGED <<pool_size, conns, pool, lock, conn_wrapper, start_time,
                   wait_start, notified, now>>
    /\ UNCHANGED notPool

\* finally: conn_wrapper.release(), first statement: self.in_use = False
ReleaseInUse(c) ==
    /\ pc[c] = "release"
    /\ conns' = [conns EXCEPT ![conn_wrapper[c]].in_use = FALSE]
    /\ pc' = [pc EXCEPT ![c] = "release_used"]
    /\ UNCHANGED <<pool_size, pool, lock, conn_wrapper, start_time,
                   wait_start, notified, raised, now>>
    /\ UNCHANGED notPool

\* conn_wrapper.release(), second statement: self.last_used = time.time()
ReleaseLastUsed(c) ==
    /\ pc[c] = "release_used"
    /\ conns' = [conns EXCEPT ![conn_wrapper[c]].last_used = now]
    /\ pc' = [pc EXCEPT ![c] = "notify"]
    /\ UNCHANGED <<pool_size, pool, lock, conn_wrapper, start_time,
                   wait_start, notified, raised, now>>
    /\ UNCHANGED notPool

\* with self._pool_condition: self._pool_condition.notify_all()
Notify(c) ==
    /\ pc[c] = "notify"
    /\ lock = NoCaller
    /\ notified' = NotifyAll(notified, pc)
    /\ conn_wrapper' = [conn_wrapper EXCEPT ![c] = NoConn]
    /\ raised' = [raised EXCEPT ![c] = FALSE]
    /\ pc' = [pc EXCEPT ![c] = "idle"]
    /\ UNCHANGED <<pool_size, conns, pool, lock, start_time, wait_start, now>>
    /\ UNCHANGED notPool

\* the steps of a caller that is inside get_connection or its with block
Proceed(c) ==
    \/ ScanLease(c) \/ ScanTimeout(c) \/ ScanWait(c) \/ Wake(c)
    \/ CleanupCheck(c) \/ Cleanup(c) \/ BodyReturns(c) \/ BodyRaises(c)
    \/ ReleaseInUse(c) \/ ReleaseLastUsed(c) \/ Notify(c)

PoolNext ==
    \/ Tick
    \/ \E c \in Callers : Enter(c)
    \/ \E c \in Callers : ScanLease(c)
    \/ \E c \in Callers : ScanTimeout(c)
    \/ \E c \in Callers : ScanWait(c)
    \/ \E c \in Callers : Wake(c)
    \/ \E c \in Callers : CleanupCheck(c)
    \/ \E c \in Callers : Cleanup(c)
    \/ \E c \in Callers : BodyReturns(c)
    \/ \E c \in Callers : BodyRaises(c)
    \/ \E c \in Callers : ReleaseInUse(c)
    \/ \E c \in Callers : ReleaseLastUsed(c)
    \/ \E c \in Callers : Notify(c)

SpecPool == PoolInit /\ [][PoolNext]_vars

\* Every thread that is inside get_connection or inside its with block keeps
\* running (the threads are scheduled by the interpreter, the with block
\* ends); new calls and the clock are not forced.
PoolFairness == \A c \in Callers : WF_vars(Proceed(c))

FairSpecPool == PoolInit /\ [][PoolNext]_vars /\ PoolFairness

(***************************************************************************)
(* Properties of the connection pool                                       *)
(***************************************************************************)
\* the caller owns a lease: from lease() to the first statement of release()
Holding(c) ==
    /\ conn_wrapper[c] # NoConn
    /\ pc[c] \in {"cleanup_check", "cleanup", "body", "release"}

PooledInUse == {i \in 1..Len(pool) : conns[pool[i]].in_use}

AllLeased == \A i \in 1..Len(pool) : conns[pool[i]].in_use

\* C1: the number of pooled connections with in_use = true never exceeds
\* pool_size, and no connection is held by two callers at the same time.
ActiveLeasesWithinCapacity ==
    /\ Cardinality(PooledInUse) <= pool_size
    /\ \A c1, c2 \in Callers :
          (c1 # c2 /\ Holding(c1) /\ Holding(c2))
              => conn_wrapper[c1] # conn_wrapper[c2]

\* C1 witness: the pool is fully leased while another caller waits for it
WitnessPoolFullyLeased ==
    /\ Len(pool) > 0
    /\ AllLeased
    /\ \E c1, c2 \in Callers : Holding(c1) /\ pc[c2] = "waiting"

\* every connection marked in_use is inside the scope of one caller
LeaseHasScope ==
    \A id \in 1..pool_size :
        conns[id].in_use => \E c \in Callers : Holding(c) /\ conn_wrapper[c] = id

\* a caller outside get_connection holds nothing
NoLeaseOutsideScope ==
    \A c \in Callers :
        pc[c] \in {"idle", "timed_out"} => conn_wrapper[c] = NoConn

\* C6: a leased connection is released (in_use false, waiters notified) when
\* the caller's with block exits, normally or by an exception; no connection
\* stays leased after its scoped acquisition has ended.
ScopedAcquisitionReleases ==
    /\ [](LeaseHasScope /\ NoLeaseOutsideScope)
    /\ \A c \in Callers : (pc[c] = "release") ~> (pc[c] = "idle")

\* C6 witness: the with block raised and the connection is free again
WitnessReleasedAfterRaise ==
    \E c \in Callers :
        /\ raised[c]
        /\ pc[c] = "notify"
        /\ ~conns[conn_wrapper[c]].in_use

\* a call obtains a connection only in a step from a state with a free one
LeaseOnlyWhenFree ==
    [][\A c \in Callers :
          (pc[c] = "scan" /\ pc'[c] = "cleanup_check") => ~AllLeased]_vars

\* a waiter that has not been notified while a pooled connection is free
\* is about to be notified by the releasing caller
NoLostWakeup ==
    \A c \in Callers :
        (pc[c] = "waiting" /\ ~notified[c] /\ ~AllLeased)
            => \E d \in Callers : pc[d] \in {"release_used", "notify"}

\* TimeoutError is raised only when the budget is spent and nothing is free,
\* and it leases nothing
TimeoutLeasesNothing ==
    [][\A c \in Callers :
          (pc[c] # "timed_out" /\ pc'[c] = "timed_out")
              => /\ now - start_time[c] >= Timeout
                 /\ AllLeased
                 /\ conns' = conns
                 /\ conn_wrapper'[c] = NoConn]_vars

\* a scan pass that finds a pooled connection free leases it
FreeIsLeased ==
    [][\A c \in Callers :
          (pc[c] = "scan" /\ ~AllLeased /\ pc'[c] # "scan")
              => (pc'[c] = "cleanup_check" /\ conn_wrapper'[c] # NoConn)]_vars

\* the notify_all of a release wakes every caller waiting on the condition
ReleaseWakesWaiters ==
    [][\A c, d \in Callers :
          (pc[d] = "notify" /\ pc'[d] = "idle" /\ pc[c] = "waiting")
              => notified'[c]]_vars

\* C7: with every pooled connection leased a further call obtains none; a
\* release wakes the waiter (no wakeup is lost) and the woken scan leases a
\* free connection; without a release the call ends in TimeoutError with
\* nothing leased.
BlockedUntilReleaseOrTimeout ==
    /\ LeaseOnlyWhenFree
    /\ FreeIsLeased
    /\ ReleaseWakesWaiters
    /\ []NoLostWakeup
    /\ TimeoutLeasesNothing

\* C7 witness: a caller that waited on the condition has been notified by a
\* release and a connection is free for it
WitnessWaiterNotified ==
    \E c \in Callers : pc[c] = "waiting" /\ notified[c] /\ ~AllLeased


(***************************************************************************)
(* SQL statements.  A statement is a sequence of lexemes; the lexemes are  *)
(* the pieces of text that the checks of validate_query tell apart.        *)
(***************************************************************************)
\* longest statement (in lexemes) validate_query is applied to
MaxStmtLen == 3

Lexemes == {"SELECT", "select", " ", "DROP", "drop", "updated_at", "name", "?"}

StatementsOfLen(n) == [1..n -> Lexemes]

Statements == UNION {StatementsOfLen(n) : n \in 0..MaxStmtLen}

\* str.upper() on one lexeme
UpperLexeme(t) ==
    CASE t = "select" -> "SELECT"
      [] t = "drop" -> "DROP"
      [] t = "updated_at" -> "UPDATED_AT"
      [] t = "name" -> "NAME"
      [] OTHER -> t

\* str.upper()
upper(q) == [i \in 1..Len(q) |-> UpperLexeme(q[i])]

\* a text that is left as written (mutation of upper)
upperIsIdentity(q) == q

\* query.upper() as validate_query computes it
query_upper_of(q) == upper(q)

\* str.strip(): leading and trailing whitespace removed
RECURSIVE lstrip(_)
lstrip(q) == IF Len(q) > 0 /\ Head(q) = " " THEN lstrip(Tail(q)) ELSE q

RECURSIVE rstrip(_)
rstrip(q) ==
    IF Len(q) > 0 /\ q[Len(q)] = " " THEN rstrip(SubSeq(q, 1, Len(q) - 1)) ELSE q

strip(q) == rstrip(lstrip(q))

\* the substring test `keyword in text` on an upper-cased lexeme
OccursIn(keyword, text) ==
    \/ text = keyword
    \/ keyword = "UPDATE" /\ text = "UPDATED_AT"

\* `keyword in query_upper`
KeywordIn(keyword, q) == \E i \in 1..Len(q) : OccursIn(keyword, q[i])

\* str.startswith('SELECT')
startswith_SELECT(q) == Len(q) > 0 /\ q[1] = "SELECT"

\* str.count('?')
RECURSIVE count_placeholders(_)
count_placeholders(q) ==
    IF Len(q) = 0 THEN 0
    ELSE (IF Head(q) = "?" THEN 1 ELSE 0) + count_placeholders(Tail(q))

dangerous_keywords ==
    <<"DROP", "DELETE", "TRUNCATE", "ALTER", "INSERT", "UPDATE",
      "CREATE", "GRANT", "REVOKE", "ATTACH", "DETACH">>

\* for keyword in dangerous_keywords: if keyword in query_upper: return ...
RECURSIVE FirstDangerous(_, _)
FirstDangerous(i, query_upper) ==
    IF i > Len(dangerous_keywords) THEN ""
    ELSE IF KeywordIn(dangerous_keywords[i], query_upper)
         THEN dangerous_keywords[i]
         ELSE FirstDangerous(i + 1, query_upper)

\* what the store answers to EXPLAIN QUERY PLAN <query>: a plan, a
\* sqlite3.Error, or no connection within the pool timeout
ExplainOutcomes == {"ok", "sqlite3.Error", "TimeoutError"}

\* SQLiteService.validate_query; explain is the outcome of the dry run
validate_query(query, explain) ==
    LET keyword == FirstDangerous(1, query_upper_of(query)) IN
    IF keyword # ""
    THEN [is_valid |-> FALSE, raised |-> FALSE, explain |-> "not run",
          error |-> <<"Query contains forbidden keyword", keyword>>]
    ELSE IF ~startswith_SELECT(upper(strip(query)))
    THEN [is_valid |-> FALSE, raised |-> FALSE, explain |-> "not run",
          error |-> <<"Only SELECT queries are allowed">>]
    ELSE IF explain = "ok"
    THEN [is_valid |-> TRUE, raised |-> FALSE, explain |-> explain,
          error |-> <<>>]
    ELSE IF explain = "sqlite3.Error"
    THEN [is_valid |-> FALSE, raised |-> FALSE, explain |-> explain,
          error |-> <<"Query validation failed">>]
    ELSE [is_valid |-> FALSE, raised |-> TRUE, explain |-> explain,
          error |-> <<"TimeoutError">>]

ValidateInit ==
    /\ stmt \in Statements
    /\ vresult = <<>>
    /\ explain_runs = 0
    /\ OnlyValidate

\* one call of validate_query(stmt)
ValidateQuery ==
    /\ vresult = <<>>
    /\ \E explain \in ExplainOutcomes :
          LET r == validate_query(stmt, explain) IN
          /\ r.explain = "not run" => explain = "ok"
          /\ vresult' = r
          /\ explain_runs' = explain_runs + (IF r.explain = "not run" THEN 0 ELSE 1)
    /\ UNCHANGED stmt
    /\ UNCHANGED notValidate

ValidateNext == ValidateQuery

SpecValidate == ValidateInit /\ [][ValidateNext]_vars

(***************************************************************************)
(* Properties of validate_query                                            *)
(***************************************************************************)
Blacklist ==
    {"DROP", "DELETE", "TRUNCATE", "ALTER", "INSERT", "UPDATE",
     "CREATE", "GRANT", "REVOKE", "ATTACH", "DETACH"}

\* the lexeme holds the keyword, in upper or lower case
HoldsKeyword(t, k) ==
    \/ t \in {"DROP", "drop"} /\ k = "DROP"
    \/ t = "updated_at" /\ k = "UPDATE"

ContainsBlacklisted(q) ==
    \E i \in 1..Len(q) : \E k \in Blacklist : HoldsKeyword(q[i], k)

\* the first lexeme that is not whitespace is the verb SELECT, in any case
BeginsWithSelect(q) ==
    \E i \in 1..Len(q) :
        /\ q[i] \in {"SELECT", "select"}
        /\ \A j \in 1..(i - 1) : q[j] = " "

Validated == vresult # <<>>

\* C3: validate_query(S) returns invalid if S holds a blacklisted keyword in
\* any case and position, then invalid if S trimmed does not begin with
\* SELECT, both before the EXPLAIN dry run; it returns valid only for a
\* statement that begins with SELECT, holds no blacklisted keyword and
\* passed the dry run.
ValidateRejectsInOrder ==
    Validated =>
        /\ ContainsBlacklisted(stmt) =>
              /\ ~vresult.is_valid /\ ~vresult.raised
              /\ vresult.error[1] = "Query contains forbidden keyword"
              /\ explain_runs = 0
        /\ (~ContainsBlacklisted(stmt) /\ ~BeginsWithSelect(stmt)) =>
              /\ ~vresult.is_valid /\ ~vresult.raised
              /\ vresult.error = <<"Only SELECT queries are allowed">>
              /\ explain_runs = 0
        /\ vresult.is_valid =>
              /\ BeginsWithSelect(stmt)
              /\ ~ContainsBlacklisted(stmt)
              /\ explain_runs = 1 /\ vresult.explain = "ok"

\* C3 witness: a lower-case keyword after a SELECT verb has been rejected
WitnessKeywordRejected ==
    /\ Validated
    /\ BeginsWithSelect(stmt)
    /\ \E i \in 1..Len(stmt) : stmt[i] = "drop"
    /\ ~vresult.is_valid


(***************************************************************************)
(* Intent extraction and routing.  A query text is a sequence of words     *)
(* separated by single blanks; a keyword is a sequence of words too.       *)
(***************************************************************************)
\* longest query text, in words
MaxWords == 2

Words == {"Education", "total", "stop", "how", "many", "party"}

TextsOfLen(n) == [1..n -> Words]

Texts == UNION {TextsOfLen(n) : n \in 0..MaxWords}

\* str.lower() on one word
LowerWord(w) == IF w = "Education" THEN "education" ELSE w

\* str.lower()
lower(text) == [i \in 1..Len(text) |-> LowerWord(text[i])]

\* the fragment is a substring of the word
FragmentIn(fragment, word) ==
    \/ word = fragment
    \/ word = "stop" /\ fragment = "top"

\* `keyword in query_lower`, the substring test on the blank-joined text
KeywordInText(keyword, text) ==
    \E i \in 1..Len(text) :
        /\ i + Len(keyword) - 1 <= Len(text)
        /\ \A j \in 1..Len(keyword) :
              IF j = 1 THEN FragmentIn(keyword[j], text[i])
              ELSE text[i + j - 1] = keyword[j]

semantic_keywords ==
    << <<"education">>, <<"rural">>, <<"urban">>, <<"background">>,
       <<"qualification">>, <<"similar">>, <<"like">>, <<"type", "of">>,
       <<"kind", "of">>, <<"related", "to">> >>

structured_keywords ==
    << <<"count">>, <<"how", "many">>, <<"total">>, <<"number", "of">>,
       <<"compare">>, <<"between">>, <<"versus">>, <<"vs">>, <<"average">>,
       <<"mean">>, <<"median">>, <<"maximum">>, <<"minimum">>, <<"top">>,
       <<"highest">>, <<"lowest">>, <<"most">>, <<"least">> >>

\* for keyword in keywords: if keyword in query_lower: ...
AnyKeywordIn(keywords, query_lower) ==
    \E n \in 1..Len(keywords) : KeywordInText(keywords[n], query_lower)

\* a key that the JSON object of the LLM does not have
Missing == "<missing>"
NoConfidence == -1

\* the JSON null
NullConfidence == -2


Intents ==
    {"count", "lookup", "compare", "aggregate", "statistics", "search", "complex"}

QueryTypes ==
    {"EXACT_LOOKUP", "ANALYTICAL", "COMPARISON", "AGGREGATION",
     "SEMANTIC_SEARCH", "COMPLEX", "COUNT"}

\* confidence in hundredths
Confidences == {30, 59, 60, 90}

Targets == {"candidates", "voting_centers", "both"}

\* the JSON objects the LLM may answer the extraction prompt with
LLMResponses ==
    [json : {TRUE},
     intent : Intents \cup {Missing},
     query_type : QueryTypes \cup {Missing},
     confidence : Confidences \cup {NoConfidence},
     target : Targets \cup {Missing}]

\* a response json.loads cannot parse
Unparsable ==
    [json |-> FALSE, intent |-> Missing, query_type |-> Missing,
     confidence |-> NoConfidence, target |-> Missing]

\* extract keeps the query_type of the LLM (mutation of MappedQueryType)
UnmappedQueryType(intent, query_type) == query_type

\* the query_type that extract derives from the intent
MappedQueryType(intent, query_type) ==
    CASE intent = "count" -> "COUNT"
      [] intent = "aggregate" -> "AGGREGATION"
      [] intent = "statistics" -> "ANALYTICAL"
      [] intent = "compare" -> "COMPARISON"
      [] intent = "complex" -> "COMPLEX"
      [] OTHER -> query_type

\* IntentExtractor.extract, from the LLM response on
extract(resp) ==
    IF ~resp.json
    THEN [intent |-> "search", target |-> "auto",
          query_type |-> "SEMANTIC_SEARCH", confidence |-> 30, error |-> TRUE]
    ELSE LET intent == IF resp.intent = Missing THEN "search" ELSE resp.intent
             query_type == IF resp.query_type = Missing
                             THEN "SEMANTIC_SEARCH" ELSE resp.query_type
         IN  [intent |-> intent,
              target |-> IF resp.target = Missing THEN "auto" ELSE resp.target,
              query_type |-> MappedQueryType(intent, query_type),
              confidence |-> IF resp.confidence = NoConfidence
                               THEN 50 ELSE resp.confidence,
              error |-> FALSE]

structured_types == {"EXACT_LOOKUP", "ANALYTICAL", "COMPARISON", "AGGREGATION"}

\* the keyword part of is_structured_query with the two loops swapped
\* (mutation of KeywordRule)
KeywordRuleStructuredFirst(query_lower) ==
    AnyKeywordIn(structured_keywords, query_lower)

\* the keyword part of is_structured_query
KeywordRule(query_lower) ==
    IF AnyKeywordIn(semantic_keywords, query_lower) THEN FALSE
    ELSE IF AnyKeywordIn(structured_keywords, query_lower) THEN TRUE
    ELSE FALSE

\* IntentExtractor.is_structured_query
is_structured_query(text, result) ==
    IF result.query_type \in structured_types /\ result.confidence >= 60
    THEN TRUE
    ELSE KeywordRule(lower(text))

\* the dispatch of route_and_execute
Dispatch(result, structured) ==
    IF result.query_type = "COUNT" \/ result.intent = "count"
    THEN "_handle_count_query"
    ELSE IF result.query_type = "AGGREGATION" THEN "_handle_sql_query"
    ELSE IF structured THEN "_handle_sql_query"
    ELSE "_handle_semantic_search"

RoutingInit ==
    /\ user_query \in Texts
    /\ response \in {r \in LLMResponses : r.target = Missing} \cup {Unparsable}
    /\ intent_result = <<>>
    /\ is_structured = FALSE
    /\ handler = ""
    /\ OnlyRouting

\* intent_result = await self.intent_extractor.extract(query)
ExtractIntent ==
    /\ intent_result = <<>>
    /\ intent_result' = extract(response)
    /\ UNCHANGED <<user_query, response, is_structured, handler>>
    /\ UNCHANGED notRouting

\* is_structured_query and the dispatch to a handler
Route ==
    /\ intent_result # <<>>
    /\ handler = ""
    /\ is_structured' = is_structured_query(user_query, intent_result)
    /\ handler' = Dispatch(intent_result, is_structured')
    /\ UNCHANGED <<user_query, response, intent_result>>
    /\ UNCHANGED notRouting

RoutingNext == ExtractIntent \/ Route

SpecRouting == RoutingInit /\ [][RoutingNext]_vars

(***************************************************************************)
(* Properties of the routing decision                                      *)
(***************************************************************************)
DecisionOf(h) ==
    CASE h = "_handle_count_query" -> "CountFastPath"
      [] h = "_handle_sql_query" -> "Structured"
      [] h = "_handle_semantic_search" -> "Semantic"
      [] OTHER -> "none"

Routed == handler # ""

\* C8: an IntentResult with confidence >= 0.6 and query_type in
\* {EXACT_LOOKUP, ANALYTICAL, COMPARISON, AGGREGATION} is routed to
\* _handle_sql_query (decision Structured), whatever the query text holds.
ConfidentStructuredTypeIsStructured ==
    (/\ Routed
     /\ intent_result.confidence >= 60
     /\ intent_result.query_type \in
            {"EXACT_LOOKUP", "ANALYTICAL", "COMPARISON", "AGGREGATION"})
        => DecisionOf(handler) = "Structured"

\* C8 witness: a confident EXACT_LOOKUP on a text with a semantic keyword
WitnessConfidentLookupOfSemanticText ==
    /\ Routed
    /\ intent_result.confidence >= 60
    /\ intent_result.query_type = "EXACT_LOOKUP"
    /\ \E i \in 1..Len(user_query) : user_query[i] = "Education"
    /\ handler = "_handle_sql_query"

SemanticIndicators ==
    { <<"education">>, <<"rural">>, <<"urban">>, <<"background">>,
      <<"qualification">>, <<"similar">>, <<"like">>, <<"type", "of">>,
      <<"kind", "of">>, <<"related", "to">> }

StructuredIndicators ==
    { <<"count">>, <<"how", "many">>, <<"total">>, <<"number", "of">>,
      <<"compare">>, <<"between">>, <<"versus">>, <<"vs">>, <<"average">>,
      <<"mean">>, <<"median">>, <<"maximum">>, <<"minimum">>, <<"top">>,
      <<"highest">>, <<"lowest">>, <<"most">>, <<"least">> }

HasIndicator(indicators, text) ==
    \E k \in indicators : KeywordInText(k, lower(text))

\* the ordered routing table
RoutingTable(result, text) ==
    IF result.query_type = "COUNT" THEN "CountFastPath"
    ELSE IF result.query_type = "AGGREGATION" THEN "Structured"
    ELSE IF result.confidence >= 60
            /\ result.query_type \in
                  {"EXACT_LOOKUP", "ANALYTICAL", "COMPARISON", "AGGREGATION"}
         THEN "Structured"
    ELSE IF HasIndicator(SemanticIndicators, text) THEN "Semantic"
    ELSE IF HasIndicator(StructuredIndicators, text) THEN "Structured"
    ELSE "Semantic"

\* C9: the routing decision equals the ordered table (COUNT, AGGREGATION,
\* confidence rule, semantic keyword, structured keyword, default Semantic)
\* applied to the IntentResult and the query text, and is one of the three
\* decisions.
DecisionFollowsRoutingTable ==
    Routed =>
        /\ DecisionOf(handler) = RoutingTable(intent_result, user_query)
        /\ DecisionOf(handler) \in {"CountFastPath", "Structured", "Semantic"}

\* C9 witness: a text with both kinds of keyword, decided by the keywords,
\* went to the semantic handler
WitnessSemanticKeywordWins ==
    /\ Routed
    /\ HasIndicator(SemanticIndicators, user_query)
    /\ HasIndicator(StructuredIndicators, user_query)
    /\ intent_result.query_type = "SEMANTIC_SEARCH"
    /\ handler = "_handle_semantic_search"


(***************************************************************************)
(* QueryRouter.  The external services are deterministic: a query is its   *)
(* words together with what the LLM and the embedding model answer for     *)
(* this text; the store and the index are fixed.                           *)
(***************************************************************************)
\* route_and_execute calls in a behaviour
MaxCalls == 2

\* largest top_k argument
MaxTopK == 2

\* vectors in the index
IndexSize == 5

Resp(intent, query_type, confidence, target) ==
    [json |-> TRUE, intent |-> intent, query_type |-> query_type,
     confidence |-> confidence, target |-> target]

\* the message of an exception that names a detail of the server
OtherMessage == "APIError: key sk-1 rejected by 10.0.0.5"

\* a request, by its words and by what the services answer while it is
\* processed; message is the text of the exception a failing LLM call raises
DefaultQuery ==
    [words |-> <<"party">>,
     extract_raises |-> FALSE,
     extract_resp |-> Resp("search", "SEMANTIC_SEARCH", NoConfidence, Missing),
     sql_raises |-> FALSE,
     sql_json |-> TRUE,
     sql |-> <<"SELECT", " ", "name">>,
     sql_params |-> 0,
     answer_raises |-> FALSE,
     embed_raises |-> FALSE,
     message |-> "APIError"]

CountQuery ==
    [DefaultQuery EXCEPT !.words = <<"how", "many", "party">>,
                         !.extract_resp = Resp("count", Missing, 90, "candidates")]

LookupQuery ==
    [DefaultQuery EXCEPT
        !.extract_resp = Resp("lookup", "EXACT_LOOKUP", 90, "candidates")]

SemanticQuery ==
    [DefaultQuery EXCEPT !.words = <<"Education", "total">>,
                         !.extract_resp = Unparsable]

\* a query that needs the database and the index, as the LLM classifies it
ComplexQuery ==
    [DefaultQuery EXCEPT
        !.extract_resp = Resp("complex", "COMPLEX", 90, "candidates")]

Queries ==
    { [DefaultQuery EXCEPT !.extract_raises = TRUE],
      [DefaultQuery EXCEPT
          !.extract_resp = Resp("lookup", "EXACT_LOOKUP", NullConfidence, Missing)],
      CountQuery,
      [CountQuery EXCEPT !.words = <<"total">>,
                         !.extract_resp = Resp("count", Missing, 90, Missing)],
      LookupQuery,
      [LookupQuery EXCEPT !.sql = <<" ", "select", " ", "name">>],
      [LookupQuery EXCEPT !.sql = <<"SELECT", " ", "updated_at">>],
      [LookupQuery EXCEPT !.sql = <<"SELECT", " ", "nosuchcolumn">>],
      [LookupQuery EXCEPT !.sql = <<"SELECT", " ", "DROP">>],
      [LookupQuery EXCEPT !.sql = <<"SELECT", " ", "?">>, !.sql_params = 1],
      [LookupQuery EXCEPT !.sql = <<"SELECT", " ", "?">>, !.sql_params = 2],
      [LookupQuery EXCEPT !.sql = <<"SELECT", " ", "?">>],
      [LookupQuery EXCEPT !.sql_params = 1],
      [LookupQuery EXCEPT !.sql_raises = TRUE],
      [LookupQuery EXCEPT !.sql_raises = TRUE, !.message = OtherMessage],
      [LookupQuery EXCEPT !.sql_json = FALSE],
      SemanticQuery,
      [SemanticQuery EXCEPT !.answer_raises = TRUE],
      [SemanticQuery EXCEPT !.answer_raises = TRUE, !.message = OtherMessage],
      [SemanticQuery EXCEPT !.embed_raises = TRUE],
      ComplexQuery,
      [ComplexQuery EXCEPT !.words = <<"total">>] }

\* filter maps, by the fields they constrain
FilterMaps == {{}, {"District"}}

TopKs == 1..MaxTopK

Requests == [query : Queries, filters : FilterMaps, top_k : TopKs]

NoCount == -1

\* a response: answer, sources, sql_used, query_type, intent, method and
\* the results_count and error of its metadata
NoResponse ==
    [answer |-> <<>>, sources |-> <<>>, sql_used |-> <<>>, query_type |-> "",
     intent |-> "", method |-> "", results_count |-> NoCount, error |-> ""]

NoIntent ==
    [intent |-> "", target |-> "", query_type |-> "", confidence |-> 0,
     error |-> FALSE]

\* a context prompt, by the data build_context_prompt puts into it
NoPrompt ==
    [count_only |-> FALSE, results_count |-> NoCount, results |-> <<>>,
     docs |-> <<>>]

\* ---- the store ----
PragmaTableInfo(table) == <<"PRAGMA", " ", "table_info(", table, ")">>

CountStatement(table) ==
    <<"SELECT", " ", "COUNT(*)", " ", "as", " ", "count", " ", "FROM", " ", table>>

SafeDefault ==
    <<"SELECT", " ", "*", " ", "FROM", " ", "candidates", " ", "LIMIT", " ", "10">>

\* rows in each table
TableRows(table) == IF table = "candidates" THEN 3 ELSE 2

\* the rows a SELECT statement of the model returns
RowsOf(statement) == <<101, 102>>

\* what the store answers to EXPLAIN QUERY PLAN of the statement
ExplainOf(statement) ==
    IF \E i \in 1..Len(statement) : statement[i] = "nosuchcolumn"
    THEN "sqlite3.Error" ELSE "ok"

\* SQLiteService.count_candidates / count_voting_centers without filters
count_rows(table) ==
    [statement |-> CountStatement(table), count |-> TableRows(table)]

\* ---- SQLGenerator ----
\* SQLGenerator._parse_sql_response
parse_sql_response(q) ==
    IF q.sql_json
    THEN [sql |-> q.sql, params |-> q.sql_params, error |-> ""]
    ELSE [sql |-> strip(q.sql), params |-> 0,
          error |-> "JSON parse failed, extracted SQL directly"]

\* a check that accepts whatever begins with SELECT and passes the dry run
\* (mutation of validate_generated)
validate_generated_select_only(statement) ==
    [is_valid |-> /\ startswith_SELECT(upper(strip(statement)))
                  /\ ExplainOf(statement) = "ok",
     raised |-> FALSE, explain |-> ExplainOf(statement), error |-> <<"">>]

\* the validate_query call of the generator
validate_generated(statement) == validate_query(statement, ExplainOf(statement))

\* SQLGenerator.generate_sql after the LLM answered
generate_sql(q) ==
    LET parsed == parse_sql_response(q)
        checked == validate_generated(parsed.sql)
    IN  IF ~checked.is_valid
        THEN [sql |-> SafeDefault, params |-> parsed.params,
              error |-> checked.error[1], rejected |-> {parsed.sql}]
        ELSE [sql |-> parsed.sql, params |-> parsed.params,
              error |-> parsed.error, rejected |-> {}]

SchemaStatements ==
    {PragmaTableInfo("candidates"), PragmaTableInfo("voting_centers")}

\* SQLGenerator.generate_and_execute
generate_and_execute(q) ==
    LET failed(error, done, refused) ==
            [success |-> FALSE, error |-> error, sql |-> <<>>, rows |-> <<>>,
             executed |-> done, rejected |-> refused]
    IN  IF q.sql_raises THEN failed(q.message, SchemaStatements, {})
        ELSE
        LET generated == generate_sql(q)
            placeholder_count == count_placeholders(generated.sql)
            again == validate_generated(generated.sql)
        IN  IF generated.error # ""
            THEN failed(generated.error, SchemaStatements, generated.rejected)
            ELSE IF ~again.is_valid
            THEN failed("SQL validation failed", SchemaStatements,
                        {generated.sql})
            ELSE IF placeholder_count > 0 /\ generated.params = 0
            THEN failed("placeholders but no parameters", SchemaStatements, {})
            ELSE IF generated.params > 0 /\ placeholder_count > 0
                    /\ generated.params # placeholder_count
            THEN failed("sqlite3.ProgrammingError",
                        SchemaStatements \cup {generated.sql}, {})
            ELSE [success |-> TRUE, error |-> "", sql |-> generated.sql,
                  rows |-> RowsOf(generated.sql),
                  executed |-> SchemaStatements \cup {generated.sql},
                  rejected |-> {}]

\* ---- RetrievalService ----
RECURSIVE Reverse(_)
Reverse(seq) ==
    IF Len(seq) = 0 THEN <<>> ELSE Append(Reverse(Tail(seq)), Head(seq))

FirstN(seq, n) == SubSeq(seq, 1, IF n < Len(seq) THEN n ELSE Len(seq))

\* the vectors of the index, nearest first
Nearest == [i \in 1..IndexSize |-> i]

\* FaissVectorStore._apply_filters
apply_filters(doc, filters) == filters = {} \/ doc % 2 = 1

\* FaissVectorStore.search
search(k, filters) ==
    FirstN(SelectSeq(FirstN(Nearest, k), LAMBDA doc : apply_filters(doc, filters)), k)

\* RetrievalService._rerank: the cross-encoder scores a document by its number
rerank(documents, top_k) == FirstN(Reverse(documents), top_k)

\* the number of candidates retrieve asks the index for with use_reranking
search_size(k) == k * 2

\* RetrievalService.retrieve with use_reranking
retrieve(k, filters) ==
    LET retrieved_docs == search(search_size(k), filters)
    IN  IF Len(retrieved_docs) > 0 THEN rerank(retrieved_docs, k)
        ELSE retrieved_docs


\* ---- the handlers of QueryRouter ----
\* the except clause of route_and_execute
error_result(intent, e) ==
    [answer |-> <<"error_apology", e>>, sources |-> <<>>, sql_used |-> <<>>,
     query_type |-> intent.query_type, intent |-> intent.intent,
     method |-> "error", results_count |-> NoCount, error |-> e]

CountSqlText(target) ==
    <<"SELECT", " ", "COUNT(*)", " ", "FROM", " ", target, " ", "WHERE", " ", "...">>

\* a count handler that lists the rows of the table and counts them
\* (mutation of handle_count_query)
handle_count_query_by_rows(req, intent) ==
    LET rows == RowsOf(SafeDefault)
    IN  [raised |-> IF req.query.answer_raises THEN req.query.message ELSE "",
         response |->
             [answer |-> <<"llm_answer">>, sources |-> rows,
              sql_used |-> CountSqlText(intent.target), query_type |-> "COUNT",
              intent |-> "count", method |-> "sqlite_count_query",
              results_count |-> Len(rows), error |-> ""],
         executed |-> {SafeDefault}, rejected |-> {},
         prompt |-> [count_only |-> FALSE, results_count |-> Len(rows),
                     results |-> rows, docs |-> <<>>],
         rows_fetched |-> Len(rows),
         searched |-> {}, samples |-> <<>>]

\* QueryRouter._handle_count_query
handle_count_query(req, intent) ==
    LET target == intent.target
        counts == target \in {"candidates", "voting_centers"}
        count == IF counts THEN count_rows(target).count ELSE 0
    IN  [raised |-> IF req.query.answer_raises THEN req.query.message ELSE "",
         response |->
             [answer |-> <<"llm_answer">>, sources |-> <<>>,
              sql_used |-> CountSqlText(target), query_type |-> "COUNT",
              intent |-> "count", method |-> "sqlite_count_query",
              results_count |-> count, error |-> ""],
         executed |-> IF counts THEN {count_rows(target).statement} ELSE {},
         rejected |-> {},
         prompt |-> [count_only |-> TRUE, results_count |-> count,
                     results |-> <<>>, docs |-> <<>>],
         rows_fetched |-> 0,
         searched |-> {}, samples |-> <<>>]

\* QueryRouter._handle_sql_query
handle_sql_query(req, intent) ==
    LET done == generate_and_execute(req.query)
    IN  IF ~done.success
        THEN [raised |-> "",
              response |->
                  [answer |-> <<"sql_apology", done.error>>, sources |-> <<>>,
                   sql_used |-> <<>>, query_type |-> intent.query_type,
                   intent |-> intent.intent, method |-> "sql_query_failed",
                   results_count |-> NoCount, error |-> done.error],
              executed |-> done.executed, rejected |-> done.rejected,
              prompt |-> NoPrompt, rows_fetched |-> 0,
              searched |-> {}, samples |-> <<>>]
        ELSE [raised |-> IF req.query.answer_raises THEN req.query.message ELSE "",
              response |->
                  [answer |-> <<"llm_answer">>, sources |-> done.rows,
                   sql_used |-> done.sql, query_type |-> intent.query_type,
                   intent |-> intent.intent,
                   method |-> "sqlite_structured_query",
                   results_count |-> Len(done.rows), error |-> ""],
              executed |-> done.executed, rejected |-> done.rejected,
              prompt |-> [count_only |-> FALSE,
                          results_count |-> Len(done.rows),
                          results |-> done.rows, docs |-> <<>>],
              rows_fetched |-> Len(done.rows),
              searched |-> {}, samples |-> <<>>]

\* QueryRouter._handle_semantic_search
handle_semantic_search(req, intent) ==
    LET retrieved_docs == retrieve(req.top_k * 2, req.filters)
    IN  IF req.query.embed_raises
        THEN [raised |-> "EmbeddingError", response |-> NoResponse,
              executed |-> {}, rejected |-> {}, prompt |-> NoPrompt,
              rows_fetched |-> 0,
              searched |-> {}, samples |-> <<>>]
        ELSE [raised |-> IF req.query.answer_raises THEN req.query.message ELSE "",
              response |->
                  [answer |-> <<"llm_answer">>, sources |-> retrieved_docs,
                   sql_used |-> <<>>, query_type |-> "SEMANTIC_SEARCH",
                   intent |-> intent.intent,
                   method |-> "vector_embedding_search_with_reranking",
                   results_count |-> NoCount, error |-> ""],
              executed |-> {}, rejected |-> {},
              prompt |-> [count_only |-> FALSE, results_count |-> NoCount,
                          results |-> <<>>, docs |-> retrieved_docs],
              rows_fetched |-> 0,
              searched |-> {search_size(req.top_k * 2)},
              samples |-> <<[query |-> req.query.words,
                             query_type |-> "SEMANTIC_SEARCH", cached |-> FALSE]>>]

\* the key of a query_result entry: _generate_hash(query, filters)
CacheKey(req) == [query |-> req.query, filters |-> req.filters]

\* RedisCacheService.cache_query_result
cache_query_result(cache, key, value) ==
    [k \in DOMAIN cache \cup {key} |-> IF k = key THEN value ELSE cache[k]]

Terminal == {"Idle", "Answered", "Failed", "Escaped"}

RouterInit ==
    /\ cache_enabled \in BOOLEAN
    /\ query_cache = <<>>
    /\ calls = 0
    /\ request = <<>>
    /\ stage = "Idle"
    /\ extracted = NoIntent
    /\ routed_to = ""
    /\ handler_result = NoResponse
    /\ returned = NoResponse
    /\ exception = ""
    /\ executed = {}
    /\ rejected = {}
    /\ prompt = NoPrompt
    /\ rows_fetched = 0
    /\ searched = {}
    /\ samples = <<>>
    /\ OnlyRouter

\* a caller awaits route_and_execute(query, filters, top_k)
Submit(req) ==
    /\ stage \in Terminal
    /\ calls < MaxCalls
    /\ calls' = calls + 1
    /\ request' = req
    /\ stage' = "Start"
    /\ extracted' = NoIntent
    /\ routed_to' = ""
    /\ handler_result' = NoResponse
    /\ returned' = NoResponse
    /\ exception' = ""
    /\ executed' = {}
    /\ rejected' = {}
    /\ prompt' = NoPrompt
    /\ rows_fetched' = 0
    /\ searched' = {}
    /\ UNCHANGED <<cache_enabled, query_cache, samples>>
    /\ UNCHANGED notRouter

CacheHolds(req) == cache_enabled /\ CacheKey(req) \in DOMAIN query_cache

\* the cache lookup of route_and_execute finds an entry and returns it
CacheHit ==
    /\ stage = "Start"
    /\ CacheHolds(request)
    /\ returned' = query_cache[CacheKey(request)]
    /\ stage' = "Answered"
    /\ UNCHANGED <<cache_enabled, query_cache, calls, request, extracted,
                   routed_to, handler_result, exception, executed, rejected,
                   prompt, rows_fetched, searched, samples>>
    /\ UNCHANGED notRouter

\* the cache lookup misses; intent extraction and the log line that formats
\* the confidence, both before the try block
Extract ==
    /\ stage = "Start"
    /\ ~CacheHolds(request)
    /\ IF request.query.extract_raises
       THEN /\ stage' = "Escaped"
            /\ exception' = "APIError"
            /\ UNCHANGED extracted
       ELSE LET intent == extract(request.query.extract_resp)
            IN  /\ extracted' = intent
                /\ IF intent.confidence = NullConfidence
                   THEN stage' = "Escaped" /\ exception' = "TypeError"
                   ELSE stage' = "Extracted" /\ UNCHANGED exception
    /\ UNCHANGED <<cache_enabled, query_cache, calls, request, routed_to,
                   handler_result, returned, executed, rejected, prompt,
                   rows_fetched, searched, samples>>
    /\ UNCHANGED notRouter

\* is_structured_query and the choice of the handler
RouteRequest ==
    /\ stage = "Extracted"
    /\ routed_to' = Dispatch(extracted,
                             is_structured_query(request.query.words, extracted))
    /\ stage' = "Routed"
    /\ UNCHANGED <<cache_enabled, query_cache, calls, request, extracted,
                   handler_result, returned, exception, executed, rejected,
                   prompt, rows_fetched, searched, samples>>
    /\ UNCHANGED notRouter

\* the handler ran inside the try block of route_and_execute
Handled(out) ==
    /\ executed' = out.executed
    /\ rejected' = out.rejected
    /\ prompt' = out.prompt
    /\ rows_fetched' = out.rows_fetched
    /\ searched' = out.searched
    /\ samples' = samples \o out.samples
    /\ IF out.raised # ""
       THEN /\ stage' = "Failed"
            /\ returned' = error_result(extracted, out.raised)
            /\ UNCHANGED handler_result
       ELSE /\ stage' = "Executed"
            /\ handler_result' = out.response
            /\ UNCHANGED returned
    /\ UNCHANGED <<cache_enabled, query_cache, calls, request, extracted,
                   routed_to, exception>>
    /\ UNCHANGED notRouter

HandleCount ==
    /\ stage = "Routed"
    /\ routed_to = "_handle_count_query"
    /\ Handled(handle_count_query(request, extracted))

HandleSql ==
    /\ stage = "Routed"
    /\ routed_to = "_handle_sql_query"
    /\ Handled(handle_sql_query(request, extracted))

HandleSemantic ==
    /\ stage = "Routed"
    /\ routed_to = "_handle_semantic_search"
    /\ Handled(handle_semantic_search(request, extracted))

\* the result is cached and returned
Answer ==
    /\ stage = "Executed"
    /\ query_cache' = IF cache_enabled
                      THEN cache_query_result(query_cache, CacheKey(request),
                                              handler_result)
                      ELSE query_cache
    /\ returned' = handler_result
    /\ stage' = "Answered"
    /\ UNCHANGED <<cache_enabled, calls, request, extracted, routed_to,
                   handler_result, exception, executed, rejected, prompt,
                   rows_fetched, searched, samples>>
    /\ UNCHANGED notRouter

\* an entry of the cache reaches its time to live
Expire(key) ==
    /\ stage \in Terminal
    /\ key \in DOMAIN query_cache
    /\ query_cache' = [k \in DOMAIN query_cache \ {key} |-> query_cache[k]]
    /\ UNCHANGED <<cache_enabled, calls, request, stage, extracted, routed_to,
                   handler_result, returned, exception, executed, rejected,
                   prompt, rows_fetched, searched, samples>>
    /\ UNCHANGED notRouter

RouterNext ==
    \/ \E req \in Requests : Submit(req)
    \/ CacheHit
    \/ Extract
    \/ RouteRequest
    \/ HandleCount
    \/ HandleSql
    \/ HandleSemantic
    \/ Answer
    \/ \E req \in Requests : Expire(CacheKey(req))

SpecRouter == RouterInit /\ [][RouterNext]_vars


(***************************************************************************)
(* Properties of route_and_execute                                         *)
(***************************************************************************)
IsTableInfoPragma(s) ==
    /\ Len(s) = 5
    /\ s[1] = "PRAGMA" /\ s[2] = " " /\ s[3] = "table_info("
    /\ s[4] \in {"candidates", "voting_centers"} /\ s[5] = ")"

ReadOnlySelect(s) == BeginsWithSelect(s) /\ ~ContainsBlacklisted(s)

\* C2 as stated: every statement that reaches execute_query during
\* route_and_execute begins with SELECT and holds no blacklisted keyword,
\* and a statement validate_query rejected is never executed.
OnlySelectStatementsExecuted ==
    /\ \A s \in executed : ReadOnlySelect(s)
    /\ executed \cap rejected = {}

\* C2: every statement that reaches execute_query during route_and_execute
\* is either the fixed PRAGMA table_info statement of the schema prompt or
\* begins (trimmed, in any letter case) with SELECT and holds no blacklisted
\* keyword; a statement validate_query rejected is never executed.
OnlySelectOrSchemaPragmaExecuted ==
    /\ \A s \in executed : IsTableInfoPragma(s) \/ ReadOnlySelect(s)
    /\ executed \cap rejected = {}

\* C2 witness: the statement the LLM generated has been executed
WitnessGeneratedStatementExecuted ==
    /\ stage = "Executed"
    /\ routed_to = "_handle_sql_query"
    /\ strip(request.query.sql) \in executed
    /\ handler_result.method = "sqlite_structured_query"

\* C4 as stated: no exception leaves route_and_execute, and a failure at any
\* stage is answered with an apology, no sources and method "error".
FailuresAnsweredAsErrors ==
    /\ stage # "Escaped"
    /\ (stage \in {"Answered", "Failed"} /\ returned.error # "") =>
          /\ returned.method = "error"
          /\ returned.sources = <<>>
          /\ returned.answer # <<>>
          /\ Head(returned.answer) = "error_apology"

\* what route_and_execute returns for the request with caching disabled
Uncached(req) ==
    IF req.query.extract_raises THEN NoResponse
    ELSE
    LET intent == extract(req.query.extract_resp)
        to == Dispatch(intent, is_structured_query(req.query.words, intent))
        out == CASE to = "_handle_count_query" -> handle_count_query(req, intent)
                 [] to = "_handle_sql_query" -> handle_sql_query(req, intent)
                 [] OTHER -> handle_semantic_search(req, intent)
    IN  IF intent.confidence = NullConfidence THEN NoResponse
        ELSE IF out.raised # "" THEN error_result(intent, out.raised)
        ELSE out.response

\* C5 as stated: the response a call returns with caching enabled equals the
\* response the same call returns with caching disabled.
CachedResponseEqualsUncached ==
    stage = "Answered" => returned = Uncached(request)

CountStatements ==
    {CountStatement("candidates"), CountStatement("voting_centers")}

\* C10: a response of the count fast-path has no sources and an integer
\* results_count, and producing it fetches no row of a table from the store
\* and puts none into the prompt.
CountFastPathHasNoRows ==
    /\ (stage \in {"Executed", "Answered", "Failed"}
        /\ routed_to = "_handle_count_query") =>
          /\ rows_fetched = 0
          /\ executed \subseteq CountStatements
          /\ prompt.results = <<>> /\ prompt.docs = <<>>
    /\ (stage = "Executed" /\ routed_to = "_handle_count_query") =>
          /\ handler_result.sources = <<>>
          /\ handler_result.results_count \in Nat
    /\ (stage = "Answered" /\ returned.method = "sqlite_count_query") =>
          /\ returned.sources = <<>>
          /\ returned.results_count \in Nat

\* C10 witness: a count query was answered with the number of candidates
WitnessCountAnswered ==
    /\ stage = "Answered"
    /\ routed_to = "_handle_count_query"
    /\ executed = {CountStatement("candidates")}
    /\ returned.results_count = TableRows("candidates")

\* the SQL handler has run for the request in hand
SqlHandlerRan ==
    /\ stage \in {"Executed", "Answered", "Failed"}
    /\ routed_to = "_handle_sql_query"

\* C11 as stated: when the statement generated for a structured request
\* fails validation, the safe default statement is executed instead of the
\* rejected one, no exception is raised, and the response carries the
\* validation error.
SafeDefaultExecutedOnRejection ==
    (SqlHandlerRan /\ rejected # {}) =>
        /\ SafeDefault \in executed
        /\ executed \cap rejected = {}
        /\ exception = ""
        /\ stage = "Executed" => handler_result.error # ""

\* C12 as stated: generate_and_execute never passes a statement to
\* execute_query when the number of its placeholders differs from the number
\* of parameters supplied with it; it returns failure before execution.
PlaceholderMismatchNeverExecuted ==
    (SqlHandlerRan /\ ~request.query.sql_raises) =>
        LET generated == generate_sql(request.query)
        IN  count_placeholders(generated.sql) # generated.params =>
                /\ generated.sql \notin executed
                /\ stage = "Executed" =>
                       handler_result.method = "sql_query_failed"

(***************************************************************************)
(* RetrievalService._get_adaptive_ef_search                                *)
(***************************************************************************)
\* the largest number of fields in a filter map
MaxFilters == 4

\* settings.faiss_hnsw_ef_search_default
EfSearchDefault == 100

\* a history shorter than this gives no adjustment
MinHistory == 10

\* fewer entries of the query type than this give no adjustment
MinRelevant == 5

\* None
NoneValue == -1

\* no query_type argument
NoType == "<none>"

\* configurations: the index type, adaptive tuning on or off and the
\* bounds faiss_hnsw_ef_search_min and faiss_hnsw_ef_search_max
EfSettings ==
    [faiss_index_type : {"hnsw", "flat"},
     faiss_enable_adaptive_ef : BOOLEAN,
     faiss_hnsw_ef_search_min : {16, 80},
     faiss_hnsw_ef_search_max : {128, 256},
     faiss_performance_window : {MinHistory}]

\* a query text, by what _calculate_query_complexity measures of it: its
\* length, its number of words and its number of special characters
QueryTexts ==
    { [length |-> 20, words |-> 4, special_chars |-> 0],
      [length |-> 60, words |-> 8, special_chars |-> 1],
      [length |-> 120, words |-> 12, special_chars |-> 4] }

\* filter maps with 0, 1 and MaxFilters fields
EfFilterMaps == {{}, {1}, 1..MaxFilters}

EfQueryTypes ==
    {"EXACT_LOOKUP", "ANALYTICAL", "COMPARISON", "SEMANTIC_SEARCH",
     "semantic_search", "HYBRID", NoType}

\* histories: n entries, the first m of them of query type t and elapsed
\* time ms, the others of another type
HistoryOf(n, m, t, ms) ==
    [i \in 1..n |->
        IF i <= m THEN [query_type |-> t, elapsed_ms |-> ms, cached |-> FALSE]
        ELSE [query_type |-> "AGGREGATION", elapsed_ms |-> 150, cached |-> TRUE]]

Histories ==
    {<<>>} \cup
    { HistoryOf(n, m, t, ms) :
        n \in {MinHistory - 1, MinHistory},
        m \in {MinRelevant - 1, MinRelevant},
        t \in {"EXACT_LOOKUP", "SEMANTIC_SEARCH"},
        ms \in {40, 80, 150, 250, 350} }

\* str.upper of a query type
upper_type(query_type) ==
    IF query_type = "semantic_search" THEN "SEMANTIC_SEARCH" ELSE query_type

\* ef_search_mapping.get(key)
ef_search_mapping(key, use_reranking) ==
    CASE key = "EXACT_LOOKUP" -> 200
      [] key = "analytical" -> 200
      [] key \in {"COMPARISON", "comparison"} -> 150
      [] key \in {"AGGREGATION", "aggregation"} -> 150
      [] key \in {"COMPLEX", "complex"} -> 150
      [] key \in {"SEMANTIC_SEARCH", "semantic_search"} ->
            IF use_reranking THEN 64 ELSE 100
      [] OTHER -> NoneValue

\* RetrievalService._get_ef_for_query_type
get_ef_for_query_type(query_type, use_reranking) ==
    ef_search_mapping(IF query_type = NoType THEN NoType
                      ELSE upper_type(query_type), use_reranking)

Min(a, b) == IF a < b THEN a ELSE b
Max(a, b) == IF a > b THEN a ELSE b

\* RetrievalService._calculate_query_complexity
calculate_query_complexity(text, filters) ==
    LET score == 1
                 + (IF text.length > 50 THEN 1 ELSE 0)
                 + (IF text.length > 100 THEN 1 ELSE 0)
                 + (IF filters # {} THEN Min(Cardinality(filters), 3) ELSE 0)
                 + (IF text.words > 5 THEN 1 ELSE 0)
                 + (IF text.words > 10 THEN 1 ELSE 0)
                 + (IF text.special_chars > 3 THEN 1 ELSE 0)
    IN  Min(score, 10)

RECURSIVE SumElapsed(_)
SumElapsed(entries) ==
    IF Len(entries) = 0 THEN 0
    ELSE Head(entries).elapsed_ms + SumElapsed(Tail(entries))

\* an adjustment taken from however few samples (mutation of
\* get_performance_adjustment)
get_performance_adjustment_of_any_sample(history, query_type) ==
    LET relevant_queries ==
            SelectSeq(history, LAMBDA q : q.query_type = query_type)
        n == Len(relevant_queries)
        total == SumElapsed(relevant_queries)
    IN  IF n = 0 THEN 0
        ELSE IF total < 50 * n THEN 20
        ELSE IF total < 100 * n THEN 10
        ELSE IF total > 300 * n THEN -20
        ELSE IF total > 200 * n THEN -10
        ELSE 0

\* RetrievalService._get_performance_adjustment; the mean is compared by
\* its numerator
get_performance_adjustment(history, query_type) ==
    LET relevant_queries ==
            SelectSeq(history, LAMBDA q : q.query_type = query_type)
        n == Len(relevant_queries)
        total == SumElapsed(relevant_queries)
    IN  IF Len(history) < MinHistory THEN 0
        ELSE IF n < MinRelevant THEN 0
        ELSE IF total < 50 * n THEN 20
        ELSE IF total < 100 * n THEN 10
        ELSE IF total > 300 * n THEN -20
        ELSE IF total > 200 * n THEN -10
        ELSE 0

\* RetrievalService._get_adaptive_ef_search
get_adaptive_ef_search(cfg, history, text, filters, query_type, use_reranking) ==
    IF cfg.faiss_index_type # "hnsw" THEN NoneValue
    ELSE IF ~cfg.faiss_enable_adaptive_ef
    THEN get_ef_for_query_type(query_type, use_reranking)
    ELSE
    LET mapped == get_ef_for_query_type(query_type, use_reranking)
        base_ef == IF mapped = NoneValue THEN EfSearchDefault ELSE mapped
        complexity == calculate_query_complexity(text, filters)
        complexity_adjustment == (complexity - 1) * 10
        performance_adjustment == get_performance_adjustment(history, query_type)
        unclamped == base_ef + complexity_adjustment + performance_adjustment
    IN  Max(cfg.faiss_hnsw_ef_search_min,
            Min(unclamped, cfg.faiss_hnsw_ef_search_max))

\* settings.faiss_performance_window
PerformanceWindow == 100

\* RetrievalService._track_performance with track_query_performance on:
\* the entry is appended and the list cut to its last max_history_size
track_performance(history, entry, max_history_size) ==
    LET appended == Append(history, entry)
    IN  IF Len(appended) > max_history_size
        THEN SubSeq(appended, Len(appended) - max_history_size + 1,
                    Len(appended))
        ELSE appended

\* the elapsed times retrieve measures
ElapsedTimes == {40, 350}

EfArgs ==
    [query : QueryTexts, filters : EfFilterMaps, query_type : EfQueryTypes,
     use_reranking : BOOLEAN]

EfInit ==
    /\ ef_settings \in EfSettings
    /\ query_history \in Histories
    /\ ef_args = <<>>
    /\ ef_pc = "ready"
    /\ ef_search = 0
    /\ OnlyEf

\* retrieve calls _get_adaptive_ef_search
GetAdaptiveEfSearch(args) ==
    /\ ef_pc = "ready"
    /\ ef_args' = args
    /\ ef_search' = get_adaptive_ef_search(ef_settings, query_history,
                                           args.query, args.filters,
                                           args.query_type, args.use_reranking)
    /\ ef_pc' = "returned"
    /\ UNCHANGED <<ef_settings, query_history>>
    /\ UNCHANGED notEf

\* retrieve goes on after the index search, and tracks the call
TrackPerformance(elapsed_ms) ==
    /\ ef_pc = "returned"
    /\ query_history' = track_performance(
                            query_history,
                            [query_type |-> ef_args.query_type,
                             elapsed_ms |-> elapsed_ms, cached |-> FALSE],
                            ef_settings.faiss_performance_window)
    /\ ef_pc' = "tracked"
    /\ UNCHANGED <<ef_settings, ef_args, ef_search>>
    /\ UNCHANGED notEf

EfNext ==
    \/ \E args \in EfArgs : GetAdaptiveEfSearch(args)
    \/ \E elapsed_ms \in ElapsedTimes : TrackPerformance(elapsed_ms)

SpecEf == EfInit /\ [][EfNext]_vars

\* C13 as stated: whatever the query, filters, query type, rerank flag,
\* history and configuration, the exploration factor the function hands to
\* the index search is an integer between faiss_hnsw_ef_search_min and
\* faiss_hnsw_ef_search_max.
EfSearchWithinBounds ==
    ef_pc = "returned" =>
        /\ ef_search # NoneValue
        /\ ef_search >= ef_settings.faiss_hnsw_ef_search_min
        /\ ef_search <= ef_settings.faiss_hnsw_ef_search_max

(***************************************************************************)
(* RedisCacheService                                                       *)
(***************************************************************************)
\* the largest ttl passed to set, which is the ttl of the settings
MaxTtl == 1

\* the time of the Redis server runs from 0 to MaxCacheTime
MaxCacheTime == 3

\* a key without expire time
NoExpiry == -1

\* the number of keys that get, set and delete are called with directly
MaxKeys == 1

CacheKeyList == <<"query_result:1", "faiss_search:1", "sql_query:1", "embedding:1">>

CacheKeys == {CacheKeyList[i] : i \in 1..Min(MaxKeys, Len(CacheKeyList))}

\* the values the operations cache: lists and dicts of JSON values, and the
\* numpy array of an embedding
ListValue == [kind |-> "list", body |-> 1]
ArrayValue == [kind |-> "ndarray", body |-> 2]
CacheValues == {ListValue, ArrayValue}

\* None, as the result of a get
Miss == [kind |-> "None", body |-> 0]

Ttls == 0..MaxTtl

\* RedisCacheService._serialize_value
serialize_value(value) ==
    IF value.kind = "ndarray"
    THEN [format |-> "pickle", kind |-> value.kind, body |-> value.body]
    ELSE IF value.kind \in {"list", "dict"}
    THEN [format |-> "json", kind |-> value.kind, body |-> value.body]
    ELSE [format |-> "str", kind |-> value.kind, body |-> value.body]

\* RedisCacheService._deserialize_value
deserialize_value(data) ==
    IF data.format = "pickle" THEN [kind |-> "ndarray", body |-> data.body]
    ELSE IF data.format = "json" THEN [kind |-> data.kind, body |-> data.body]
    ELSE [kind |-> "str", body |-> data.body]

\* the Redis server: GET of a key at time t
redis_get(db, key, t) ==
    IF key \in DOMAIN db /\ (db[key].expire_at = NoExpiry \/ t < db[key].expire_at)
    THEN db[key].data
    ELSE [format |-> "nil", kind |-> "", body |-> 0]

\* the Redis server: SET (expire_at = NoExpiry) and SETEX
redis_set(db, key, data, expire_at) ==
    [k \in DOMAIN db \cup {key} |->
        IF k = key THEN [data |-> data, expire_at |-> expire_at] ELSE db[k]]

\* the Redis server: DEL
redis_delete(db, key) == [k \in DOMAIN db \ {key} |-> db[k]]

\* a get that lets the error of the Redis client through (mutation of
\* cache_get)
cache_get_unguarded(enabled, up, db, key, t) ==
    IF ~enabled THEN [value |-> Miss, raised |-> FALSE]
    ELSE IF ~up THEN [value |-> Miss, raised |-> TRUE]
    ELSE IF redis_get(db, key, t).format # "nil"
    THEN [value |-> deserialize_value(redis_get(db, key, t)), raised |-> FALSE]
    ELSE [value |-> Miss, raised |-> FALSE]

\* RedisCacheService.get
cache_get(enabled, up, db, key, t) ==
    IF ~enabled THEN [value |-> Miss, raised |-> FALSE]
    ELSE IF ~up THEN [value |-> Miss, raised |-> FALSE]
    ELSE IF redis_get(db, key, t).format # "nil"
    THEN [value |-> deserialize_value(redis_get(db, key, t)), raised |-> FALSE]
    ELSE [value |-> Miss, raised |-> FALSE]

\* RedisCacheService.set
cache_set(enabled, up, db, key, value, ttl, t) ==
    IF ~enabled THEN [ok |-> FALSE, raised |-> FALSE, db |-> db]
    ELSE IF ~up THEN [ok |-> FALSE, raised |-> FALSE, db |-> db]
    ELSE IF ttl # 0
    THEN [ok |-> TRUE, raised |-> FALSE,
          db |-> redis_set(db, key, serialize_value(value), t + ttl)]
    ELSE [ok |-> TRUE, raised |-> FALSE,
          db |-> redis_set(db, key, serialize_value(value), NoExpiry)]

\* RedisCacheService.delete
cache_delete(enabled, up, db, key, t) ==
    IF ~enabled THEN [ok |-> FALSE, raised |-> FALSE, db |-> db]
    ELSE IF ~up THEN [ok |-> FALSE, raised |-> FALSE, db |-> db]
    ELSE [ok |-> redis_get(db, key, t).format # "nil", raised |-> FALSE,
          db |-> redis_delete(db, key)]

\* the operations that use the cache, the key each reads and writes, and the
\* value each computes on a miss
CachedOperations ==
    {"route_and_execute", "retrieve", "execute_query", "embed_single"}

KeyOf(op) ==
    CASE op = "route_and_execute" -> "query_result:1"
      [] op = "retrieve" -> "faiss_search:1"
      [] op = "execute_query" -> "sql_query:1"
      [] OTHER -> "embedding:1"

Computed(op) == IF op = "embed_single" THEN ArrayValue ELSE ListValue

\* cache_query_result, cache_faiss_search, cache_sql_result and
\* cache_embedding: ttl or the ttl of the settings
ttl_or_default(ttl) == IF ttl # 0 THEN ttl ELSE MaxTtl

NoCall ==
    [op |-> "", key |-> "", value |-> Miss, ok |-> FALSE, raised |-> FALSE,
     unavailable |-> FALSE, at |-> 0]

NoOperation ==
    [op |-> "", pc |-> "idle", cached |-> Miss, result |-> Miss,
     raised |-> FALSE, unavailable |-> FALSE]

\* a cache that is enabled and whose server answers
CacheTtlInit ==
    /\ rc_enabled = TRUE
    /\ backend_up = TRUE
    /\ redis_db = <<>>
    /\ rc_now = 0
    /\ set_log = <<>>
    /\ rc_call = NoCall
    /\ caller = NoOperation
    /\ OnlyCache

\* a cache that __init__ enabled or disabled, with or without its server
CacheFailureInit ==
    /\ rc_enabled \in BOOLEAN
    /\ backend_up \in BOOLEAN
    /\ redis_db = <<>>
    /\ rc_now = 0
    /\ set_log = <<>>
    /\ rc_call = NoCall
    /\ caller = NoOperation
    /\ OnlyCache

\* the Redis server becomes unreachable, or reachable again
BackendFlip ==
    /\ backend_up' = ~backend_up
    /\ UNCHANGED <<rc_enabled, redis_db, rc_now, set_log, rc_call, caller>>
    /\ UNCHANGED notCache

\* time passes
CacheTick ==
    /\ rc_now < MaxCacheTime
    /\ rc_now' = rc_now + 1
    /\ UNCHANGED <<rc_enabled, backend_up, redis_db, set_log, rc_call, caller>>
    /\ UNCHANGED notCache

\* RedisCacheService.set(key, value, ttl)
RcSet(key, value, ttl) ==
    LET out == cache_set(rc_enabled, backend_up, redis_db, key, value, ttl, rc_now)
    IN  /\ redis_db' = out.db
        /\ set_log' = IF out.ok
                      THEN [k \in DOMAIN set_log \cup {key} |->
                               IF k = key
                               THEN [value |-> value, ttl |-> ttl, at |-> rc_now]
                               ELSE set_log[k]]
                      ELSE set_log
        /\ rc_call' = [op |-> "set", key |-> key, value |-> value, ok |-> out.ok,
                       raised |-> out.raised,
                       unavailable |-> ~rc_enabled \/ ~backend_up, at |-> rc_now]
        /\ UNCHANGED <<rc_enabled, backend_up, rc_now, caller>>
        /\ UNCHANGED notCache

\* RedisCacheService.get(key)
RcGet(key) ==
    LET out == cache_get(rc_enabled, backend_up, redis_db, key, rc_now)
    IN  /\ rc_call' = [op |-> "get", key |-> key, value |-> out.value,
                       ok |-> out.value # Miss, raised |-> out.raised,
                       unavailable |-> ~rc_enabled \/ ~backend_up, at |-> rc_now]
        /\ UNCHANGED <<rc_enabled, backend_up, redis_db, rc_now, set_log, caller>>
        /\ UNCHANGED notCache

\* RedisCacheService.delete(key)
RcDelete(key) ==
    LET out == cache_delete(rc_enabled, backend_up, redis_db, key, rc_now)
    IN  /\ redis_db' = out.db
        /\ set_log' = IF rc_enabled /\ backend_up
                      THEN [k \in DOMAIN set_log \ {key} |-> set_log[k]]
                      ELSE set_log
        /\ rc_call' = [op |-> "delete", key |-> key, value |-> Miss,
                       ok |-> out.ok, raised |-> out.raised,
                       unavailable |-> ~rc_enabled \/ ~backend_up, at |-> rc_now]
        /\ UNCHANGED <<rc_enabled, backend_up, rc_now, caller>>
        /\ UNCHANGED notCache

\* an operation starts and looks its result up in the cache
CallerLookup(op) ==
    /\ caller.pc \in {"idle", "done", "raised"}
    /\ LET out == IF rc_enabled
                  THEN cache_get(rc_enabled, backend_up, redis_db, KeyOf(op), rc_now)
                  ELSE [value |-> Miss, raised |-> FALSE]
       IN  caller' = [op |-> op, pc |-> IF out.raised THEN "raised" ELSE "looked",
                      cached |-> out.value, result |-> Miss,
                      raised |-> out.raised,
                      unavailable |-> ~rc_enabled \/ ~backend_up]
    /\ UNCHANGED <<rc_enabled, backend_up, redis_db, rc_now, set_log, rc_call>>
    /\ UNCHANGED notCache

\* the operation returns the cached result, or computes its result, caches
\* it and returns it
CallerComplete ==
    /\ caller.pc = "looked"
    /\ IF caller.cached # Miss
       THEN /\ caller' = [caller EXCEPT !.pc = "done", !.result = caller.cached]
            /\ UNCHANGED <<redis_db, set_log>>
       ELSE LET out == IF rc_enabled
                       THEN cache_set(rc_enabled, backend_up, redis_db,
                                      KeyOf(caller.op), Computed(caller.op),
                                      ttl_or_default(0), rc_now)
                       ELSE [ok |-> FALSE, raised |-> FALSE, db |-> redis_db]
            IN  /\ redis_db' = out.db
                /\ set_log' =
                       IF out.ok
                       THEN [k \in DOMAIN set_log \cup {KeyOf(caller.op)} |->
                                IF k = KeyOf(caller.op)
                                THEN [value |-> Computed(caller.op),
                                      ttl |-> ttl_or_default(0), at |-> rc_now]
                                ELSE set_log[k]]
                       ELSE set_log
                /\ caller' = [caller EXCEPT
                                 !.pc = IF out.raised THEN "raised" ELSE "done",
                                 !.result = IF out.raised THEN Miss
                                            ELSE Computed(caller.op),
                                 !.raised = out.raised,
                                 !.unavailable = @ \/ ~rc_enabled \/ ~backend_up]
    /\ UNCHANGED <<rc_enabled, backend_up, rc_now, rc_call>>
    /\ UNCHANGED notCache

CacheTtlNext ==
    \/ CacheTick
    \/ \E key \in CacheKeys, value \in CacheValues, ttl \in Ttls :
          RcSet(key, value, ttl)
    \/ \E key \in CacheKeys : RcGet(key)
    \/ \E key \in CacheKeys : RcDelete(key)

SpecCacheTtl == CacheTtlInit /\ [][CacheTtlNext]_vars

CacheFailureNext ==
    \/ BackendFlip
    \/ \E key \in CacheKeys, value \in CacheValues, ttl \in Ttls :
          RcSet(key, value, ttl)
    \/ \E key \in CacheKeys : RcGet(key)
    \/ \E key \in CacheKeys : RcDelete(key)
    \/ \E op \in CachedOperations : CallerLookup(op)
    \/ CallerComplete

SpecCacheFailure == CacheFailureInit /\ [][CacheFailureNext]_vars

\* C14 as stated: after set(key, value, t), a get of the key returns the
\* value at every time before t has elapsed and a miss at and after it; no
\* read returns a value whose ttl has elapsed.
TtlRespected ==
    (rc_call.op = "get" /\ rc_call.key \in DOMAIN set_log) =>
        LET written == set_log[rc_call.key]
        IN  /\ rc_call.at < written.at + written.ttl =>
                  rc_call.value = written.value
            /\ rc_call.at >= written.at + written.ttl => rc_call.value = Miss

\* C15: when the cache is disabled or its server is unreachable or raises
\* during the call, get returns a miss and set and delete return False, none
\* of them raises, and the operation that called them completes with the
\* result it computes on a cache miss.
CacheFailureIsAMiss ==
    /\ ~rc_call.raised
    /\ rc_call.unavailable =>
          /\ ~rc_call.ok
          /\ rc_call.op = "get" => rc_call.value = Miss
    /\ ~caller.raised /\ caller.pc # "raised"
    /\ (caller.pc = "done" /\ caller.unavailable) =>
          caller.result = Computed(caller.op)

\* C15 witness: an operation completed although the server of the enabled
\* cache did not answer, and a direct get was answered with a miss
WitnessCompletedWithoutBackend ==
    /\ rc_enabled /\ ~backend_up
    /\ caller.pc = "done" /\ caller.unavailable
    /\ caller.result = Computed(caller.op)
    /\ rc_call.op = "get" /\ rc_call.unavailable

(***************************************************************************)
(* RetrievalService.retrieve                                               *)
(***************************************************************************)
\* the number of retrieve calls of a behaviour
MaxRetrievals == 2

\* a document without rerank_score
NoScore == -1

\* a document of the index, as search returns it
Document(i) == [index |-> i, rerank_score |-> NoScore]

\* cross_encoder.predict: the score of a document is its number
predict(i) == i

RetrieveArgs ==
    [k : TopKs, filters : FilterMaps, use_reranking : BOOLEAN,
     predict_raises : BOOLEAN]

\* the key of a faiss_search entry: embedding_hash, k and the hash of filters
faiss_key(args) == [k |-> args.k, filters |-> args.filters]

\* FaissVectorStore.search, as documents
search_documents(k, filters) ==
    [i \in 1..Len(search(k, filters)) |-> Document(search(k, filters)[i])]

\* RetrievalService._rerank
rerank_documents(documents, top_k, raises) ==
    IF raises THEN FirstN(documents, top_k)
    ELSE LET order == rerank([i \in 1..Len(documents) |-> documents[i].index],
                             top_k)
         IN  [i \in 1..Len(order) |->
                 [index |-> order[i], rerank_score |-> predict(order[i])]]

\* RetrievalService.retrieve after the cache lookup missed
retrieve_documents(encoder, args) ==
    LET retrieved_docs ==
            search_documents(IF args.use_reranking THEN args.k * 2 ELSE args.k,
                             args.filters)
    IN  [candidates |-> retrieved_docs,
         result |-> IF args.use_reranking /\ encoder /\ Len(retrieved_docs) > 0
                    THEN rerank_documents(retrieved_docs, args.k,
                                          args.predict_raises)
                    ELSE retrieved_docs]

RetrievalInit ==
    /\ cross_encoder \in BOOLEAN
    /\ faiss_enabled \in BOOLEAN
    /\ faiss_cache = <<>>
    /\ rt_history = <<>>
    /\ rt_calls = 0
    /\ rt_args = <<>>
    /\ rt_candidates = <<>>
    /\ rt_result = <<>>
    /\ OnlyRetrieval

\* retrieve finds a faiss_search entry that is not empty and returns it
RetrieveCached(args) ==
    /\ rt_calls < MaxRetrievals
    /\ faiss_enabled
    /\ faiss_key(args) \in DOMAIN faiss_cache
    /\ faiss_cache[faiss_key(args)] # <<>>
    /\ rt_calls' = rt_calls + 1
    /\ rt_args' = args
    /\ rt_candidates' = <<>>
    /\ rt_result' = faiss_cache[faiss_key(args)]
    /\ rt_history' = track_performance(
                         rt_history,
                         [query_type |-> "SEMANTIC_SEARCH", cached |-> TRUE],
                         PerformanceWindow)
    /\ UNCHANGED <<cross_encoder, faiss_enabled, faiss_cache>>
    /\ UNCHANGED notRetrieval

\* retrieve searches the index, re-ranks, caches the result and returns it
RetrieveSearched(args) ==
    /\ rt_calls < MaxRetrievals
    /\ ~(/\ faiss_enabled
         /\ faiss_key(args) \in DOMAIN faiss_cache
         /\ faiss_cache[faiss_key(args)] # <<>>)
    /\ LET out == retrieve_documents(cross_encoder, args)
       IN  /\ rt_candidates' = out.candidates
           /\ rt_result' = out.result
           /\ faiss_cache' = IF faiss_enabled
                             THEN [key \in DOMAIN faiss_cache \cup {faiss_key(args)} |->
                                      IF key = faiss_key(args) THEN out.result
                                      ELSE faiss_cache[key]]
                             ELSE faiss_cache
    /\ rt_calls' = rt_calls + 1
    /\ rt_args' = args
    /\ rt_history' = track_performance(
                         rt_history,
                         [query_type |-> "SEMANTIC_SEARCH", cached |-> FALSE],
                         PerformanceWindow)
    /\ UNCHANGED <<cross_encoder, faiss_enabled>>
    /\ UNCHANGED notRetrieval

\* an entry of the cache reaches its time to live
FaissExpire(key) ==
    /\ key \in DOMAIN faiss_cache
    /\ faiss_cache' = [other \in DOMAIN faiss_cache \ {key} |-> faiss_cache[other]]
    /\ UNCHANGED <<cross_encoder, faiss_enabled, rt_history, rt_calls, rt_args,
                   rt_candidates, rt_result>>
    /\ UNCHANGED notRetrieval

RetrievalNext ==
    \/ \E args \in RetrieveArgs : RetrieveCached(args)
    \/ \E args \in RetrieveArgs : RetrieveSearched(args)
    \/ \E args \in RetrieveArgs : FaissExpire(faiss_key(args))

SpecRetrieval == RetrievalInit /\ [][RetrievalNext]_vars

\* C16 as stated: retrieve with use_reranking returns at most k documents,
\* each with a rerank_score, in non-increasing order of rerank_score, without
\* duplicates and all among the candidates the index search returned.
RerankedResultContract ==
    (rt_calls > 0 /\ rt_args.use_reranking) =>
        /\ Len(rt_result) <= rt_args.k
        /\ \A i \in 1..Len(rt_result) : rt_result[i].rerank_score # NoScore
        /\ \A i, j \in 1..Len(rt_result) :
              i < j => rt_result[i].rerank_score >= rt_result[j].rerank_score
        /\ \A i, j \in 1..Len(rt_result) :
              i # j => rt_result[i].index # rt_result[j].index
        /\ ~rt_history[Len(rt_history)].cached =>
              \A i \in 1..Len(rt_result) :
                  \E j \in 1..Len(rt_candidates) :
                      rt_candidates[j].index = rt_result[i].index

\* the Semantic handler has returned for the request in hand
SemanticHandlerReturned ==
    /\ stage \in {"Executed", "Answered"}
    /\ routed_to = "_handle_semantic_search"

\* C17 as stated: for a request routed to the Semantic path with top_k = n
\* the index is asked for 2n candidates and the sources of the response are
\* at most n.
SemanticSearchesTwiceTopK ==
    SemanticHandlerReturned =>
        /\ searched = {2 * request.top_k}
        /\ Len(handler_result.sources) <= request.top_k

\* the methods of the responses of the structured handlers that succeeded
StructuredMethods == {"sqlite_structured_query", "sqlite_count_query"}

\* the call in hand repeats a structured request whose response is cached
RepeatsCachedStructured ==
    /\ stage = "Start"
    /\ CacheHolds(request)
    /\ query_cache[CacheKey(request)].method \in StructuredMethods

\* the parts of C18 that concern the response: it is the cached one, with the
\* sql_used of the first, and nothing was extracted, executed or searched
ServedFromCacheStep ==
    RepeatsCachedStructured =>
        /\ stage' = "Answered"
        /\ returned' = query_cache[CacheKey(request)]
        /\ returned'.sql_used = query_cache[CacheKey(request)].sql_used
        /\ extracted' = NoIntent /\ routed_to' = ""
        /\ executed' = {} /\ searched' = {}

\* C18 as stated: with caching enabled, the second of two identical
\* structured requests is served from the query_result cache before any
\* extraction, SQL generation, store or index call, carries the sql_used of
\* the first, and a performance sample with cache_hit = true is recorded.
RepeatServedFromCacheWithSample ==
    [][ /\ ServedFromCacheStep
        /\ RepeatsCachedStructured =>
              /\ Len(samples') = Len(samples) + 1
              /\ samples'[Len(samples')].cached ]_vars

Messages == {DefaultQuery.message, OtherMessage}

\* the call in hand failed and its response is the one of a failure
FailureResponse ==
    IF stage = "Failed" THEN returned ELSE handler_result

\* C19 as stated: the response to a failed request holds a generic apology
\* only; two failures that differ in nothing but the message of the exception
\* get the same answer text and the same caller-visible response.
FailureResponseHidesMessage ==
    (\/ stage = "Failed"
     \/ stage = "Executed" /\ handler_result.method = "sql_query_failed") =>
        \A m \in Messages :
            Uncached([request EXCEPT !.query.message = m]) = FailureResponse

(***************************************************************************)
(* DeepSeekLLMService.ainvoke                                              *)
(***************************************************************************)
\* the largest max_retries argument
MaxRetries == 4

\* what an attempt, the call of self.llm.ainvoke, can do: return the response
\* or raise; "APIError" is an APIError that is neither a timeout nor a rate
\* limit, "Exception" any exception that is no APIError
AttemptOutcomes ==
    {"ok", "APITimeoutError", "RateLimitError", "APIError", "Exception"}

\* wait_time of the except clause that catches the error
wait_time(error, n) ==
    CASE error = "APITimeoutError" -> Min(2 ^ n, 10)
      [] error = "RateLimitError" -> Min(5 * (n + 1), 30)
      [] OTHER -> Min(2 ^ n, 5)

\* a loop that retries every error (mutation of retried)
retried_whatever_error(error, n, limit) == n < limit - 1

\* the except clause sleeps and lets the loop go on, instead of raising
retried(error, n, limit) == error # "APIError" /\ n < limit - 1

LlmInit ==
    /\ max_retries \in 0..MaxRetries
    /\ attempt = 0
    /\ llm_pc = "loop"
    /\ errors = <<>>
    /\ waits = <<>>
    /\ llm_outcome = ""
    /\ OnlyLlm

\* one attempt of the loop: the call returns, or raises and the except
\* clause either begins a sleep or raises again
Attempt(outcome) ==
    /\ llm_pc = "loop"
    /\ attempt < max_retries
    /\ IF outcome = "ok"
       THEN /\ llm_pc' = "returned"
            /\ llm_outcome' = "content"
            /\ UNCHANGED <<errors, waits>>
       ELSE /\ errors' = Append(errors, outcome)
            /\ IF retried(outcome, attempt, max_retries)
               THEN /\ waits' = Append(waits, wait_time(outcome, attempt))
                    /\ llm_pc' = "sleeping"
                    /\ UNCHANGED llm_outcome
               ELSE /\ llm_pc' = "raised"
                    /\ llm_outcome' = outcome
                    /\ UNCHANGED waits
    /\ UNCHANGED <<max_retries, attempt>>
    /\ UNCHANGED notLlm

\* asyncio.sleep returns and the loop takes its next attempt number
Sleep ==
    /\ llm_pc = "sleeping"
    /\ attempt' = attempt + 1
    /\ llm_pc' = "loop"
    /\ UNCHANGED <<max_retries, errors, waits, llm_outcome>>
    /\ UNCHANGED notLlm

\* the loop ends without an attempt having returned or raised
LoopExit ==
    /\ llm_pc = "loop"
    /\ attempt >= max_retries
    /\ llm_pc' = "raised"
    /\ llm_outcome' = IF errors = <<>> THEN "Unknown error occurred"
                      ELSE errors[Len(errors)]
    /\ UNCHANGED <<max_retries, attempt, errors, waits>>
    /\ UNCHANGED notLlm

LlmNext ==
    \/ \E outcome \in AttemptOutcomes : Attempt(outcome)
    \/ Sleep
    \/ LoopExit

SpecLlm == LlmInit /\ [][LlmNext]_vars

\* what the sentences say of the attempts and of the end of the call: at
\* most max_retries attempts, a wait after a failed attempt only if it was
\* not the last one and not a plain APIError, a plain APIError raised at
\* once, and the error of the last attempt raised without a wait
AttemptsAndEnd ==
    /\ Len(errors) <= max_retries
    /\ \A i \in 1..Len(waits) : i < max_retries /\ errors[i] # "APIError"
    /\ llm_pc \in {"loop", "sleeping", "returned"} => Len(waits) = Len(errors)
    /\ llm_pc = "loop" => Len(errors) = attempt
    /\ (llm_pc = "raised" /\ errors # <<>>) =>
          /\ Len(waits) = Len(errors) - 1
          /\ llm_outcome = errors[Len(errors)]
          /\ errors[Len(errors)] = "APIError" \/ Len(errors) = max_retries

\* C20 as stated: at most max_retries attempts; the wait after a timeout or
\* rate-limit error on a non-final attempt grows exponentially with the
\* attempt number (it doubles from one attempt number to the next); a plain
\* API error is raised at once; the error of the final attempt is raised
\* with no further wait.
RetriesWithExponentialWaits ==
    /\ AttemptsAndEnd
    /\ \A i \in 1..Len(waits) :
          /\ errors[i] = "APITimeoutError" => waits[i] = 1 * 2 ^ (i - 1)
          /\ errors[i] = "RateLimitError" => waits[i] = 5 * 2 ^ (i - 1)

\* C20: at most max_retries attempts; after a failed attempt number n
\* (from 0) that is not the last, a timeout is followed by a wait of
\* min(2^n, 10) seconds, a rate limit by min(5 (n + 1), 30) seconds, any
\* exception that is no APIError by min(2^n, 5) seconds, and then by the
\* next attempt; a plain APIError is raised at once; the error of the final
\* attempt is raised with no further wait.
RetriesWithCappedWaits ==
    /\ AttemptsAndEnd
    /\ \A i \in 1..Len(waits) :
          /\ errors[i] = "APITimeoutError" =>
                waits[i] = IF 2 ^ (i - 1) < 10 THEN 2 ^ (i - 1) ELSE 10
          /\ errors[i] = "RateLimitError" =>
                waits[i] = IF 5 * i < 30 THEN 5 * i ELSE 30
          /\ errors[i] = "Exception" =>
                waits[i] = IF 2 ^ (i - 1) < 5 THEN 2 ^ (i - 1) ELSE 5

\* C20 witness: a timeout and two rate limits were waited for, and the
\* error of the final attempt was raised
WitnessRetriesExhausted ==
    /\ llm_pc = "raised"
    /\ Len(errors) = max_retries
    /\ Len(waits) = 3
    /\ errors[1] = "APITimeoutError"
    /\ errors[2] = "RateLimitError" /\ errors[3] = "RateLimitError"
    /\ llm_outcome = errors[Len(errors)]

(***************************************************************************)
(* Termination of route_and_execute                                        *)
(***************************************************************************)
\* every awaited call of a request in flight returns or raises, and the
\* event loop then resumes the coroutine; callers need not submit
RouterFairness ==
    /\ WF_vars(CacheHit) /\ WF_vars(Extract) /\ WF_vars(RouteRequest)
    /\ WF_vars(HandleCount) /\ WF_vars(HandleSql) /\ WF_vars(HandleSemantic)
    /\ WF_vars(Answer)

FairSpecRouter == RouterInit /\ [][RouterNext]_vars /\ RouterFairness

\* the place of a stage in the order Start, Extracted, Routed, Executed,
\* terminal
StageRank(s) ==
    CASE s = "Start" -> 0 [] s = "Extracted" -> 1 [] s = "Routed" -> 2
      [] s = "Executed" -> 3 [] OTHER -> 4

\* a step either submits a request or moves the request forward in the order
StagesInOrder ==
    stage' # stage =>
        \/ stage \in Terminal /\ stage' = "Start"
        \/ stage \notin Terminal /\ StageRank(stage') > StageRank(stage)

\* C21 as stated: every request of route_and_execute passes its stages in
\* the order Start, Extracted, Routed, Executed and eventually reaches
\* Answered or Failed; no request stays in flight forever.
EveryRequestAnsweredOrFailed ==
    /\ [][StagesInOrder]_vars
    /\ (stage = "Start") ~> (stage \in {"Answered", "Failed"})

(***************************************************************************)
(* The event loop.  Each chat request is a coroutine of the one event loop *)
(* thread of the server; a coroutine runs on that thread from one await    *)
(* that suspends it to the next.                                           *)
(***************************************************************************)
\* requests in flight at once
MaxInFlight == 2

Coroutines == 1..MaxInFlight

\* the handlers a request is dispatched to
HandlerKinds == {"_handle_semantic_search", "_handle_count_query"}

\* the synchronous stages of RetrievalService.retrieve
VectorWork == {"embedding", "searching", "reranking"}

LoopInit ==
    /\ co_kind = [r \in Coroutines |-> "_handle_semantic_search"]
    /\ co_pc = [r \in Coroutines |-> "idle"]
    /\ running = 0
    /\ OnlyLoop

\* a chat request arrives and its coroutine is scheduled
Arrive(r, kind) ==
    /\ co_pc[r] = "idle"
    /\ co_kind' = [co_kind EXCEPT ![r] = kind]
    /\ co_pc' = [co_pc EXCEPT ![r] = "scheduled"]
    /\ UNCHANGED running
    /\ UNCHANGED notLoop

\* the loop runs route_and_execute up to the await of the LLM call of
\* intent extraction
RunToExtract(r) ==
    /\ running = 0
    /\ co_pc[r] = "scheduled"
    /\ co_pc' = [co_pc EXCEPT ![r] = "await_extract"]
    /\ UNCHANGED <<co_kind, running>>
    /\ UNCHANGED notLoop

\* the LLM server answers the call the coroutine awaits
LlmReturns(r) ==
    /\ co_pc[r] \in {"await_extract", "await_answer"}
    /\ co_pc' = [co_pc EXCEPT ![r] = IF co_pc[r] = "await_extract"
                                     THEN "extract_done" ELSE "answer_done"]
    /\ UNCHANGED <<co_kind, running>>
    /\ UNCHANGED notLoop

\* the loop resumes the coroutine after intent extraction: the count handler
\* runs up to the await of its LLM call, the semantic handler calls retrieve
ResumeHandler(r) ==
    /\ running = 0
    /\ co_pc[r] = "extract_done"
    /\ IF co_kind[r] = "_handle_semantic_search"
       THEN co_pc' = [co_pc EXCEPT ![r] = "embedding"] /\ running' = r
       ELSE co_pc' = [co_pc EXCEPT ![r] = "await_answer"] /\ UNCHANGED running
    /\ UNCHANGED co_kind
    /\ UNCHANGED notLoop

\* retrieve: the query embedding is computed
Embed(r) ==
    /\ running = r
    /\ co_pc[r] = "embedding"
    /\ co_pc' = [co_pc EXCEPT ![r] = "searching"]
    /\ UNCHANGED <<co_kind, running>>
    /\ UNCHANGED notLoop

\* retrieve: the index is searched
SearchIndex(r) ==
    /\ running = r
    /\ co_pc[r] = "searching"
    /\ co_pc' = [co_pc EXCEPT ![r] = "reranking"]
    /\ UNCHANGED <<co_kind, running>>
    /\ UNCHANGED notLoop

\* retrieve: the candidates are reranked; the handler builds the prompt and
\* awaits the LLM call of the answer
RerankAndAwait(r) ==
    /\ running = r
    /\ co_pc[r] = "reranking"
    /\ co_pc' = [co_pc EXCEPT ![r] = "await_answer"]
    /\ running' = 0
    /\ UNCHANGED co_kind
    /\ UNCHANGED notLoop

\* the loop resumes the coroutine after the answer: the result is returned
ResumeReturn(r) ==
    /\ running = 0
    /\ co_pc[r] = "answer_done"
    /\ co_pc' = [co_pc EXCEPT ![r] = "returned"]
    /\ UNCHANGED <<co_kind, running>>
    /\ UNCHANGED notLoop

\* the response was sent; the client sends its next request
NextRequest(r) ==
    /\ co_pc[r] = "returned"
    /\ co_pc' = [co_pc EXCEPT ![r] = "idle"]
    /\ UNCHANGED <<co_kind, running>>
    /\ UNCHANGED notLoop

\* what can happen to a request in flight
RequestStep(r) ==
    \/ RunToExtract(r)
    \/ LlmReturns(r)
    \/ ResumeHandler(r)
    \/ Embed(r)
    \/ SearchIndex(r)
    \/ RerankAndAwait(r)
    \/ ResumeReturn(r)

LoopNext ==
    \/ \E r \in Coroutines, kind \in HandlerKinds : Arrive(r, kind)
    \/ \E r \in Coroutines : RequestStep(r)
    \/ \E r \in Coroutines : NextRequest(r)

SpecLoop == LoopInit /\ [][LoopNext]_vars

InFlight(r) == co_pc[r] \notin {"idle", "returned"}

\* C22 as stated: while one request is inside embedding generation, index
\* search or reranking, every other request in flight can still take a step.
OthersProgressDuringVectorWork ==
    \A r \in Coroutines : co_pc[r] \in VectorWork =>
        \A d \in Coroutines \ {r} : InFlight(d) => ENABLED RequestStep(d)

(***************************************************************************)
(* Lock discipline of the connection pool                                  *)
(***************************************************************************)
\* the caller that takes the step
Acts(c) == pc'[c] # pc[c]

\* a step that writes in_use, last_used or lease_count of a connection, or
\* the membership list, is taken by the holder of the pool lock, or takes
\* the free lock for the write
WritesHoldLock ==
    (conns' # conns \/ pool' # pool) =>
        \E c \in Callers : Acts(c) /\ lock \in {c, NoCaller}

\* C23 as stated: every write of the pool's bookkeeping happens with the
\* pool lock held, and the lock is not held while a caller is in its with
\* block running statements on the leased connection.
BookkeepingUnderLock ==
    /\ [][WritesHoldLock]_vars
    /\ [](\A c \in Callers : pc[c] = "body" => lock # c)

(***************************************************************************)
(* The idle sweep                                                          *)
(***************************************************************************)
\* the connections of a membership list
Members(p) == {p[i] : i \in 1..Len(p)}

\* a step never adds a connection to the pool, and the connections it
\* removes are not in use and idle past the threshold
OnlyIdleRemoved ==
    /\ Len(pool') <= Len(pool)
    /\ Members(pool') \subseteq Members(pool)
    /\ \A id \in Members(pool) \ Members(pool') :
          ~conns[id].in_use /\ now - conns[id].last_used > IdleTimeout

\* C24 as stated, the words "the pool can shrink down to zero" read as a
\* pool that ends with no connection: the pool never grows, the sweep
\* removes only connections that are not in use and idle past the
\* threshold, and the pool shrinks to zero.
PoolShrinksToZero ==
    /\ [][OnlyIdleRemoved]_vars
    /\ <>(Len(pool) = 0)

\* C24: the pool never grows and the sweep removes, without replacement,
\* only connections that are not in use and idle past the threshold, so the
\* pool can shrink for good; it never shrinks to zero, because the sweep
\* runs inside get_connection after the caller leased a connection.
PoolShrinksButNeverEmpties ==
    /\ [][OnlyIdleRemoved]_vars
    /\ [](Len(pool) > 0)

\* C24 witness: a sweep has removed connections, and the thread that ran it
\* holds its lease
WitnessPoolShrunk ==
    /\ Len(pool) < pool_size
    /\ \E c \in Callers :
          pc[c] = "body" /\ conn_wrapper[c] \in Members(pool)

(***************************************************************************)
(* The adaptive exploration factor                                         *)
(***************************************************************************)
\* the adjustment the sentence gives for the samples of a query type: by
\* their average elapsed time alone, or only when the window holds enough
\* samples
AdjustmentByAverage(history, query_type, enough_needed) ==
    LET same == SelectSeq(history, LAMBDA q : q.query_type = query_type)
        n == Len(same)
        total == SumElapsed(same)
    IN  IF n = 0 THEN 0
        ELSE IF enough_needed /\ (Len(history) < 10 \/ n < 5) THEN 0
        ELSE IF total < 50 * n THEN 20
        ELSE IF total < 100 * n THEN 10
        ELSE IF total > 300 * n THEN -20
        ELSE IF total > 200 * n THEN -10
        ELSE 0

\* base + (complexity - 1) * 10 + adjustment, clamped to the bounds
ClampedSum(enough_needed) ==
    LET mapped == get_ef_for_query_type(ef_args.query_type,
                                        ef_args.use_reranking)
        base == IF mapped = NoneValue THEN EfSearchDefault ELSE mapped
        complexity == calculate_query_complexity(ef_args.query, ef_args.filters)
        sum == base + (complexity - 1) * 10
               + AdjustmentByAverage(query_history, ef_args.query_type,
                                     enough_needed)
        lo == ef_settings.faiss_hnsw_ef_search_min
        hi == ef_settings.faiss_hnsw_ef_search_max
    IN  IF sum < lo THEN lo ELSE IF sum > hi THEN hi ELSE sum

AdaptiveCallReturned ==
    /\ ef_pc = "returned"
    /\ ef_settings.faiss_index_type = "hnsw"
    /\ ef_settings.faiss_enable_adaptive_ef

\* the window holds at most faiss_performance_window samples, and a tracked
\* sample is the last of the window, behind the most recent earlier ones
WindowKeepsMostRecent ==
    /\ Len(query_history') <= ef_settings.faiss_performance_window
    /\ query_history' # query_history =>
          LET n == Len(query_history')
              kept == n - 1
              before == Len(query_history)
          IN  /\ n > 0
              /\ n = IF before < ef_settings.faiss_performance_window
                     THEN before + 1
                     ELSE ef_settings.faiss_performance_window
              /\ \A i \in 1..kept :
                    query_history'[i] = query_history[before - kept + i]

\* C25 as stated: with adaptive tuning on, the exploration factor is
\* clamp(base + (complexity - 1) * 10 + performance_adjustment), complexity
\* in 1..10, the adjustment given by the average elapsed_ms of the samples of
\* the same query_type alone; the window holds at most
\* faiss_performance_window samples, the most recent ones.
EfIsClampedSumByAverage ==
    /\ [](AdaptiveCallReturned =>
            /\ calculate_query_complexity(ef_args.query, ef_args.filters)
                  \in 1..10
            /\ ef_search = ClampedSum(FALSE))
    /\ [][WindowKeepsMostRecent]_vars

\* C25: as above, the adjustment being 0 unless the window holds at least 10
\* samples and at least 5 of the same query_type.
EfIsClampedSumOfEnoughSamples ==
    /\ [](AdaptiveCallReturned =>
            /\ calculate_query_complexity(ef_args.query, ef_args.filters)
                  \in 1..10
            /\ ef_search = ClampedSum(TRUE))
    /\ [][WindowKeepsMostRecent]_vars

\* C25 witness: a call whose factor was raised by 20 for fast samples and
\* not clamped was tracked into a full window
WitnessTunedAndTracked ==
    /\ ef_pc = "tracked"
    /\ ef_settings.faiss_enable_adaptive_ef
    /\ ef_settings.faiss_index_type = "hnsw"
    /\ ef_args.query_type = "SEMANTIC_SEARCH" /\ ef_args.use_reranking
    /\ calculate_query_complexity(ef_args.query, ef_args.filters) = 4
    /\ ef_search = 64 + 30 + 20
    /\ Len(query_history) = ef_settings.faiss_performance_window
    /\ ~query_history[Len(query_history)].cached

(***************************************************************************)
(* The direct extraction of a statement                                    *)
(***************************************************************************)
\* the SQL response of the request is no JSON object, and the SELECT
\* statement extracted from it passes validate_query
ExtractedStatementValid ==
    /\ ~request.query.sql_raises
    /\ ~request.query.sql_json
    /\ validate_generated(strip(request.query.sql)).is_valid

\* C26 as stated: when the SQL response cannot be parsed as the structured
\* object but holds a SELECT statement, that statement is the statement of
\* the request: if it is valid it is executed and its rows are returned, and
\* the request does not fail.
ExtractedStatementExecuted ==
    (SqlHandlerRan /\ ExtractedStatementValid) =>
        /\ strip(request.query.sql) \in executed
        /\ stage = "Executed" =>
              /\ handler_result.method = "sqlite_structured_query"
              /\ handler_result.sources = RowsOf(strip(request.query.sql))

(***************************************************************************)
(* Requests with the intent count                                          *)
(***************************************************************************)
\* the handler chosen for a request whose extracted intent is count has run
CountIntentHandled ==
    /\ stage \in {"Executed", "Answered", "Failed"}
    /\ extracted.intent = "count"

\* C27 as stated: for a request whose extracted intent is count, whatever
\* the extracted target, exactly one COUNT(*) statement is executed, no rows
\* are fetched and no vector search runs, and results_count is the integer
\* that statement returned.
CountIntentRunsOneCount ==
    CountIntentHandled =>
        /\ Cardinality(executed \cap CountStatements) = 1
        /\ executed \subseteq CountStatements
        /\ rows_fetched = 0 /\ searched = {}
        /\ stage = "Executed" =>
              \E table \in {"candidates", "voting_centers"} :
                  /\ count_rows(table).statement \in executed
                  /\ handler_result.results_count = count_rows(table).count

(***************************************************************************)
(* Queries that need both the database and the index                       *)
(***************************************************************************)

\* the extraction classified the request as complex: the class that
\* _handle_hybrid_query is written for
HybridFlagged ==
    /\ stage \in {"Executed", "Answered"}
    /\ extracted.intent = "complex"
    /\ extracted.query_type = "COMPLEX"

\* C28: for a query flagged hybrid, route_and_execute runs both the
\* structured and the vector handler and answers with the method
\* "hybrid_sql_plus_vector": once such a request is executed, a statement
\* reached the database, the index was searched, and the response carries
\* that method.
HybridRunsBothHandlers ==
    HybridFlagged =>
        /\ handler_result.method = "hybrid_sql_plus_vector"
        /\ executed # {}
        /\ searched # {}

(***************************************************************************)
(* Failed requests and the query_result cache                              *)
(***************************************************************************)

FailureMethods == {"error", "sql_query_failed"}

\* the request ended with the response of a failure
EndedInFailure ==
    /\ stage \in {"Answered", "Failed"}
    /\ returned.method \in FailureMethods

\* C29: no response of a failed request is written to the query_result
\* cache: no entry of the cache carries the method "error" or
\* "sql_query_failed", and after a request ended with one of them the cache
\* holds no entry for its (query, filters).
FailuresNeverCached ==
    /\ \A key \in DOMAIN query_cache :
           query_cache[key].method \notin FailureMethods
    /\ EndedInFailure => CacheKey(request) \notin DOMAIN query_cache

(***************************************************************************)
(* The faiss_search cache of retrieve                                      *)
(***************************************************************************)

\* the last retrieve call returned an entry of the faiss_search cache
ReturnedFromFaissCache ==
    /\ rt_calls > 0
    /\ rt_history[Len(rt_history)].cached

\* C30: every list that retrieve returns from the cache equals the list the
\* same call, with its k, filters and use_reranking, computes without the
\* cache (whether or not the cross-encoder fails in that computation).
CachedEqualsComputed ==
    ReturnedFromFaissCache =>
        \E raises \in BOOLEAN :
            rt_result =
                retrieve_documents(
                    cross_encoder,
                    [rt_args EXCEPT !.predict_raises = raises]).result

====
